---------------------------- MODULE Spec2Model ----------------------------
(***************************************************************************)
(* A model of shellfish: the line tokenizer Shell::unescape (src/shell.rs), *)
(* the four command handlers (src/handler/*.rs), the interactive loop      *)
(* Shell::run / run_async (src/shell.rs) and the one-shot App::run_vec /   *)
(* run_vec_async with its persisted state (src/app.rs).                    *)
(*                                                                         *)
(* A Rust String is a sequence of one-character strings; a Vec<String> is  *)
(* a sequence of such sequences.                                           *)
(***************************************************************************)
EXTENDS Naturals, Sequences, FiniteSets, TLC

VARIABLES
    pc,          \* position of the modelled call: "scan", "done" (unescape);
                 \* "ready", "handled" (a handler); "read", "got", "terminated"
                 \* (the loop); "new", "failed", "returned" (the app)
    \* ---- Shell::unescape (src/shell.rs:197-241)
    input,       \* the line first handed to unescape
    command,     \* the argument `command` of the running call
    idx,         \* number of characters of `command` already consumed by the for loop
    vec,         \* local `vec`
    escape,      \* local `escape`
    string,      \* local `string`
    ret,         \* the value returned by the call (NoRet while it runs)
    pass,        \* 1: the call on `input`; 2: the call on the re-joined tokens
    first,       \* the value returned by pass 1 (NoRet during pass 1)
    \* ---- the handlers (src/handler/*.rs)
    commands,    \* the registry: a function from names to Command records
    insertion,   \* the insertion order of the IndexMap handed to DefaultHandler
    state,       \* the state T
    state_in,    \* the state when the handler was called
    description, \* the description string
    proj_name,   \* field proj_name of the CLI handlers: {} is None, {p} is Some(p)
    handler,     \* the handler that ran ("none" before)
    line,        \* the token list it was given
    result,      \* the bool it returned ("none" before)
    stdout,      \* the lines it printed with println!
    stderr,      \* the lines it printed with eprintln!
    calls,       \* the command bodies it invoked: <<[name, args, left, ok]>>
    prev,        \* what an earlier call of a handler, from the same state,
                 \* was given and did (NoRet when there was none)
    \* ---- Shell::run and Shell::run_async (src/shell.rs:102-128, 154-184)
    mode,        \* the entry point that runs: "run", "run_async", "run_vec",
                 \* "run_vec_async" ("none" when a function is examined alone)
    last,        \* what input_handler.read returned in this iteration
    tokens,      \* the token list handed to the handler
    reads,       \* number of calls of input_handler.read so far
    run_ret,     \* the value returned by run / run_async (NoRet while it runs)
    inflight,    \* number of command futures created and not yet completed
    \* ---- App (src/app.rs)
    store,       \* the cache file: {} when absent, {text} when it holds text
    cache,       \* whether get_cache() is Some(path)
    app_ret,     \* the value returned by the constructor or by run_vec
    runs,        \* number of calls of run_vec / run_vec_async so far
    given        \* the state the caller gave to the constructor of the app

unescape_vars == <<input, command, idx, vec, escape, string, ret, pass, first>>
handler_vars == <<commands, insertion, state, state_in, description, proj_name,
                  handler, line, result, stdout, stderr, calls, prev>>
run_vars == <<mode, last, tokens, reads, run_ret, inflight>>
app_vars == <<store, cache, app_ret, runs, given>>
vars == <<pc, unescape_vars, handler_vars, run_vars, app_vars>>

---------------------------------------------------------------------------
(* Bounds *)

\* longest input line handed to unescape
MaxLen == 4
\* most entries of a registry
MaxCmds == 1
\* most arguments after the command name
MaxArgs == 1
\* the state T is a counter in 0..MaxState
MaxState == 1

---------------------------------------------------------------------------
(* Characters *)

SP == " "
DQ == "\""
BS == "\\"
NL == "\n"
CR == "\r"
TAB == "\t"

\* The characters input lines are drawn from: the three special characters,
\* the escape letters n r t, a letter with no escape (q), and a tab.
Chars == {SP, DQ, BS, "n", "r", "t", "q", TAB}

\* All lines of at most n characters.
LinesUpTo(n) == UNION {[1..k -> Chars] : k \in 0..n}

---------------------------------------------------------------------------
(* Shell::unescape *)

NoRet == [tag |-> "none"]
Ok(v) == [tag |-> "Ok", val |-> v]
UnhandledEscapeSequence(c) == [tag |-> "Err", err |-> "UnhandledEscapeSequence", ch |-> c]
UnclosedQuotes == [tag |-> "Err", err |-> "UnclosedQuotes"]
\* vec.last_mut().unwrap() on an empty vec
Panic == [tag |-> "panic"]

\* segment.push(ch) where segment = vec.last_mut().unwrap()
Push(v, ch) == [v EXCEPT ![Len(v)] = Append(@, ch)]

\* The value a character has when it is not in the escape table.
NoChar == "unhandled"

\* EscapeTable with the guard `if !string` of the space arm left out.
EscapeTableSpaceInQuotes(c, str) ==
    CASE c = BS -> BS
      [] c = SP -> SP
      [] c = "n" -> NL
      [] c = "r" -> CR
      [] c = "t" -> TAB
      [] c = DQ -> DQ
      [] OTHER -> NoChar

\* The match of the escape branch: the character pushed for the escaped
\* character c, or NoChar for the arm `_ => return Err(..)`.
EscapeTable(c, str) ==
    CASE c = BS -> BS
      [] c = SP /\ ~str -> SP
      [] c = "n" -> NL
      [] c = "r" -> CR
      [] c = "t" -> TAB
      [] c = DQ -> DQ
      [] OTHER -> NoChar

\* UnescapeStart with `vec![]` for `vec![String::new()]`.
UnescapeStartEmpty == [vec |-> <<>>, escape |-> FALSE, string |-> FALSE]

\* The locals at the start of the call.
UnescapeStart == [vec |-> << <<>> >>, escape |-> FALSE, string |-> FALSE]

\* UnescapeChar with the arm `' ' if string` left out: every unescaped space
\* starts a new token.
UnescapeCharSplitsInQuotes(l, c) ==
    IF l.vec = <<>> THEN [l EXCEPT !.ret = Panic]
    ELSE IF l.escape THEN
        IF EscapeTable(c, l.string) = NoChar
        THEN [l EXCEPT !.ret = UnhandledEscapeSequence(c)]
        ELSE [l EXCEPT !.vec = Push(l.vec, EscapeTable(c, l.string)),
                       !.escape = FALSE]
    ELSE IF c = BS THEN [l EXCEPT !.escape = TRUE]
    ELSE IF c = DQ THEN [l EXCEPT !.string = ~l.string]
    ELSE IF c = SP THEN [l EXCEPT !.vec = Append(l.vec, <<>>)]
    ELSE [l EXCEPT !.vec = Push(l.vec, c)]

\* UnescapeChar with a space outside quotes starting a new token only when
\* the last token is not empty: runs of spaces collapse.
UnescapeCharCollapsesSpaces(l, c) ==
    IF l.vec = <<>> THEN [l EXCEPT !.ret = Panic]
    ELSE IF l.escape THEN
        IF EscapeTable(c, l.string) = NoChar
        THEN [l EXCEPT !.ret = UnhandledEscapeSequence(c)]
        ELSE [l EXCEPT !.vec = Push(l.vec, EscapeTable(c, l.string)),
                       !.escape = FALSE]
    ELSE IF c = BS THEN [l EXCEPT !.escape = TRUE]
    ELSE IF c = DQ THEN [l EXCEPT !.string = ~l.string]
    ELSE IF c = SP /\ l.string THEN [l EXCEPT !.vec = Push(l.vec, c)]
    ELSE IF c = SP /\ ~l.string THEN
        IF l.vec[Len(l.vec)] = <<>> THEN l
        ELSE [l EXCEPT !.vec = Append(l.vec, <<>>)]
    ELSE [l EXCEPT !.vec = Push(l.vec, c)]

\* UnescapeChar with an escaped character outside the escape table passed
\* over instead of returned as an error.
UnescapeCharSkipsUnhandled(l, c) ==
    IF l.vec = <<>> THEN [l EXCEPT !.ret = Panic]
    ELSE IF l.escape THEN
        IF EscapeTable(c, l.string) = NoChar
        THEN [l EXCEPT !.escape = FALSE]
        ELSE [l EXCEPT !.vec = Push(l.vec, EscapeTable(c, l.string)),
                       !.escape = FALSE]
    ELSE IF c = BS THEN [l EXCEPT !.escape = TRUE]
    ELSE IF c = DQ THEN [l EXCEPT !.string = ~l.string]
    ELSE IF c = SP /\ l.string THEN [l EXCEPT !.vec = Push(l.vec, c)]
    ELSE IF c = SP /\ ~l.string THEN [l EXCEPT !.vec = Append(l.vec, <<>>)]
    ELSE [l EXCEPT !.vec = Push(l.vec, c)]

\* One iteration of `for c in command.chars()` on the locals l:
\* the new locals and the value returned from inside the loop (NoRet if none).
UnescapeChar(l, c) ==
    IF l.vec = <<>> THEN [l EXCEPT !.ret = Panic]
    ELSE IF l.escape THEN
        IF EscapeTable(c, l.string) = NoChar
        THEN [l EXCEPT !.ret = UnhandledEscapeSequence(c)]
        ELSE [l EXCEPT !.vec = Push(l.vec, EscapeTable(c, l.string)),
                       !.escape = FALSE]
    ELSE IF c = BS THEN [l EXCEPT !.escape = TRUE]
    ELSE IF c = DQ THEN [l EXCEPT !.string = ~l.string]
    ELSE IF c = SP /\ l.string THEN [l EXCEPT !.vec = Push(l.vec, c)]
    ELSE IF c = SP /\ ~l.string THEN [l EXCEPT !.vec = Append(l.vec, <<>>)]
    ELSE [l EXCEPT !.vec = Push(l.vec, c)]

\* UnescapeEnd with the check of `string` left out.
UnescapeEndNoQuoteCheck(l) ==
    IF Len(l.vec) = 1 /\ l.vec[1] = <<>> THEN Ok(<<>>)
    ELSE Ok(l.vec)

\* UnescapeEnd dropping an empty last token whatever the number of tokens.
UnescapeEndPopsTrailing(l) ==
    IF l.string THEN UnclosedQuotes
    ELSE IF l.vec[Len(l.vec)] = <<>> THEN Ok(SubSeq(l.vec, 1, Len(l.vec) - 1))
    ELSE Ok(l.vec)

\* UnescapeEnd with an escape left pending at the end of the input reported
\* like an unclosed quote.
UnescapeEndRejectsEscape(l) ==
    IF l.string \/ l.escape THEN UnclosedQuotes
    ELSE IF Len(l.vec) = 1 /\ l.vec[1] = <<>> THEN Ok(<<>>)
    ELSE Ok(l.vec)

\* The code after the loop.
UnescapeEnd(l) ==
    IF l.string THEN UnclosedQuotes
    ELSE IF Len(l.vec) = 1 /\ l.vec[1] = <<>> THEN Ok(<<>>)
    ELSE Ok(l.vec)

Locals == [vec |-> vec, escape |-> escape, string |-> string, ret |-> NoRet]

\* parts.join(sep) of the standard library
RECURSIVE Join(_, _)
Join(parts, sep) ==
    IF parts = <<>> THEN <<>>
    ELSE IF Len(parts) = 1 THEN parts[1]
    ELSE parts[1] \o <<sep>> \o Join(Tail(parts), sep)

\* One iteration of the for loop of the running call.
UnescapeLoop ==
    /\ pc = "scan"
    /\ idx < Len(command)
    /\ LET l == UnescapeChar(Locals, command[idx + 1]) IN
        /\ vec' = l.vec
        /\ escape' = l.escape
        /\ string' = l.string
        /\ ret' = l.ret
        /\ pc' = IF l.ret = NoRet THEN "scan" ELSE "done"
    /\ idx' = idx + 1
    /\ UNCHANGED <<input, command, pass, first, handler_vars, run_vars,
                   app_vars>>

\* The end of the for loop and the return after it.
UnescapeReturn ==
    /\ pc = "scan"
    /\ idx = Len(command)
    /\ ret' = UnescapeEnd(Locals)
    /\ pc' = "done"
    /\ UNCHANGED <<input, command, idx, vec, escape, string, pass, first,
                   handler_vars, run_vars, app_vars>>

\* unescape(join(unescape(s), " ")): a second call on the joined tokens of
\* the first.
Rejoin ==
    /\ pc = "done"
    /\ pass = 1
    /\ ret.tag = "Ok"
    /\ first' = ret
    /\ pass' = 2
    /\ command' = Join(ret.val, SP)
    /\ idx' = 0
    /\ vec' = UnescapeStart.vec
    /\ escape' = UnescapeStart.escape
    /\ string' = UnescapeStart.string
    /\ ret' = NoRet
    /\ pc' = "scan"
    /\ UNCHANGED <<input, handler_vars, run_vars, app_vars>>

\* No handler runs while unescape is examined.
HandlerIdle ==
    /\ commands = <<>>
    /\ insertion = <<>>
    /\ state = 0
    /\ state_in = 0
    /\ description = ""
    /\ proj_name = {}
    /\ handler = "none"
    /\ line = <<>>
    /\ result = "none"
    /\ stdout = <<>>
    /\ stderr = <<>>
    /\ calls = <<>>
    /\ prev = NoRet

\* No loop runs while a function is examined alone.
RunIdle ==
    /\ mode = "none"
    /\ last = NoRet
    /\ tokens = <<>>
    /\ reads = 0
    /\ run_ret = NoRet
    /\ inflight = 0

\* No app and no cache file while a function is examined alone.
AppIdle ==
    /\ store = {}
    /\ cache = FALSE
    /\ app_ret = NoRet
    /\ runs = 0
    /\ given = 0

InitUnescape ==
    /\ pc = "scan"
    /\ input \in LinesUpTo(MaxLen)
    /\ command = input
    /\ idx = 0
    /\ vec = UnescapeStart.vec
    /\ escape = UnescapeStart.escape
    /\ string = UnescapeStart.string
    /\ ret = NoRet
    /\ pass = 1
    /\ first = NoRet
    /\ HandlerIdle
    /\ RunIdle
    /\ AppIdle

NextUnescape == UnescapeLoop \/ UnescapeReturn \/ Rejoin

SpecUnescape == InitUnescape /\ [][NextUnescape]_vars

---------------------------------------------------------------------------
(* Commands and registries (src/command.rs, Shell::commands, App::commands) *)

S_help == <<"h", "e", "l", "p">>
S_quit == <<"q", "u", "i", "t">>
S_exit == <<"e", "x", "i", "t">>
S_dhelp == <<"-", "-", "h", "e", "l", "p">>
S_dquit == <<"-", "-", "q", "u", "i", "t">>
S_dexit == <<"-", "-", "e", "x", "i", "t">>
S_count == <<"c", "o", "u", "n", "t">>
S_cat == <<"c", "a", "t">>
S_nope == <<"n", "o", "p", "e">>
S_QUIT == <<"Q", "U", "I", "T">>
S_prog == <<"s", "h">>
S_app == <<"a", "p", "p">>
S_x == <<"x">>

\* The names a registry of the model may hold, and the Command registered
\* under each: its CommandType and its help string.
UserNames == {S_help, S_quit, S_exit, S_dhelp, S_dquit, S_dexit, S_count, S_cat}
Command(name) ==
    [command |-> IF name \in {S_exit, S_dhelp, S_cat} THEN "Async" ELSE "Sync",
     help |-> IF name = S_help THEN "my own help"
              ELSE IF name \in {S_quit, S_exit} THEN "my own quit"
              ELSE IF name = S_count THEN "increments a counter."
              ELSE "a user command"]

\* The sequences without repetition of at most n elements of S.
DistinctSeqs(S, n) ==
    {q \in UNION {[1..k -> S] : k \in 0..n} :
        \A i, j \in 1..Len(q) : i # j => q[i] # q[j]}
\* The orders in which a map with the keys S may be iterated.
IterationOrders(S) == DistinctSeqs(S, Cardinality(S)) \cap [1..Cardinality(S) -> S]

\* The values of the state T.
States == 0..MaxState

\* The token lists handed to the handlers: a word and at most MaxArgs
\* arguments, or nothing; for the CLI handlers behind a program name.
Words == UserNames \cup {S_nope, S_QUIT}
ArgLists == UNION {[1..k -> {S_x}] : k \in 0..MaxArgs}
Lines == {<<>>} \cup {<<w>> \o a : w \in Words, a \in ArgLists}
ProgNames == {S_prog, S_quit}
Argvs == {<<>>} \cup {<<p>> \o l : p \in ProgNames, l \in Lines}

---------------------------------------------------------------------------
(* What the handlers print *)

\* println!()
Blank == [text |-> ""]
\* println!("{}", description) and the fixed lines
Text(t) == [text |-> t]
\* println!("    {} - {}", name, help)
Entry(name, help) == [name |-> name, sep |-> " - ", help |-> help]
\* println!("    {:<width$}{}", name, help, width = ..)
Column(name, help, width) == [name |-> name, width |-> width, help |-> help]
\* println!("{}", line[0])
Binary(name) == [binary |-> name]
\* println!("    {} [SUBCOMMAND]", name)
Usage(name) == [usage |-> name]
\* eprintln! of a message and what it is about
Report(msg, about) == [msg |-> msg, about |-> about]

AsyncInSyncShell == Report("Async commands cannot be run in sync shells.", <<>>)
AsyncInSyncApp == Report("Async commands cannot be run in sync apps.", <<>>)
ExitedUnsuccessfully == Report("Command exited unsuccessfully:", <<>>)
NotFound(name) == Report("Command not found:", name)

\* The help of the interactive handlers, the registry cmds listed in `order`.
ShellHelp(descr, cmds, order) ==
    <<Text(descr),
      Text("    help - displays help information."),
      Text("    quit - quits the shell."),
      Text("    exit - exits the shell.")>>
    \o [i \in 1..Len(order) |-> Entry(order[i], cmds[order[i]].help)]

\* cmd_help of the CLI handlers: the three built-ins, then the registry
\* inserted over them.
CmdHelp(cmds) ==
    [n \in {S_help, S_quit, S_exit} \cup DOMAIN cmds |->
        IF n \in DOMAIN cmds THEN cmds[n].help
        ELSE IF n = S_help THEN "displays help information."
        ELSE "deletes all temporary state information."]

\* cmd_len: 4 or the longest registered name
RECURSIVE MaxLenOf(_)
MaxLenOf(S) ==
    IF S = {} THEN 4
    ELSE LET n == CHOOSE n \in S : TRUE
             m == MaxLenOf(S \ {n})
         IN IF Len(n) > m THEN Len(n) ELSE m

\* The help of the CLI handlers, cmd_help listed in `order`.
AppHelp(ln, proj, descr, cmds, order) ==
    <<Binary(ln[1]),
      Text(descr),
      Text("USAGE:"),
      Usage(IF proj = {} THEN ln[1] ELSE CHOOSE p \in proj : TRUE),
      Blank,
      Text("Where [SUBCOMMAND] is one of:")>>
    \o [i \in 1..Len(order) |->
            Column(order[i], CmdHelp(cmds)[order[i]], MaxLenOf(DOMAIN cmds) + 5)]

---------------------------------------------------------------------------
(* The handlers *)

\* Returns with the registry emptied by the handler.
ReturnsEmptiesRegistry(h, ln, res, st, out, errs, cl) ==
    /\ pc' = "handled"
    /\ handler' = h
    /\ line' = ln
    /\ result' = res
    /\ state' = st
    /\ stdout' = out
    /\ stderr' = errs
    /\ calls' = cl
    /\ commands' = <<>>
    /\ UNCHANGED <<state_in, description, proj_name, prev, unescape_vars,
                   run_vars, app_vars>>

\* The handler h, called with the token list ln, returns res and leaves the
\* state st; it has printed out and errs and invoked the bodies cl.  The
\* registry and the description are borrowed immutably.
Returns(h, ln, res, st, out, errs, cl) ==
    /\ pc' = "handled"
    /\ handler' = h
    /\ line' = ln
    /\ result' = res
    /\ state' = st
    /\ stdout' = out
    /\ stderr' = errs
    /\ calls' = cl
    /\ UNCHANGED <<commands, state_in, description, proj_name, prev,
                   unescape_vars, run_vars, app_vars>>

\* The invocation of a body with the state restored to what it was before
\* the call when the body returns Err.
InvokesRollsBack(h, ln, name, args, out) ==
    \E st \in States, ok \in BOOLEAN :
        Returns(h, ln, FALSE, IF ok THEN st ELSE state, out,
                IF ok THEN <<>> ELSE <<ExitedUnsuccessfully>>,
                <<[name |-> name, args |-> args, left |-> st, ok |-> ok]>>)

\* `c(state, args)`, or `a(state, args).await`, for the command registered as
\* name, then the report of its failure; out is what the handler itself
\* prints.  The body is the caller's code: it leaves any state (left) and
\* returns Ok or Err (ok); it worked on `&mut state`, so what it left is the
\* state.
Invokes(h, ln, name, args, out) ==
    \E st \in States, ok \in BOOLEAN :
        Returns(h, ln, FALSE, st, out,
                IF ok THEN <<>> ELSE <<ExitedUnsuccessfully>>,
                <<[name |-> name, args |-> args, left |-> st, ok |-> ok]>>)

\* DefaultHandler::handle running the body of a `CommandType::Async` command
\* as it runs a synchronous one.
DefaultHandler_handle_RunsAsync(ln, ins) ==
    /\ pc = "ready"
    /\ insertion' = ins
    /\ LET h == "DefaultHandler" IN
       IF Len(ln) = 0 THEN Returns(h, ln, FALSE, state, <<>>, <<>>, <<>>)
       ELSE IF ln[1] \in {S_quit, S_exit}
       THEN Returns(h, ln, TRUE, state, <<Blank>>, <<>>, <<>>)
       ELSE IF ln[1] = S_help
       THEN Returns(h, ln, FALSE, state,
                    <<Blank>> \o ShellHelp(description, commands, ins)
                        \o <<Blank>>,
                    <<>>, <<>>)
       ELSE IF ln[1] \notin DOMAIN commands
       THEN Returns(h, ln, FALSE, state, <<Blank, Blank>>,
                    <<NotFound(ln[1])>>, <<>>)
       ELSE Invokes(h, ln, ln[1], ln, <<Blank, Blank>>)

\* DefaultHandler::handle; its `commands` is an IndexMap: the registry with
\* the insertion order ins, in which it is iterated.
DefaultHandler_handle(ln, ins) ==
    /\ pc = "ready"
    /\ insertion' = ins
    /\ LET h == "DefaultHandler" IN
       IF Len(ln) = 0 THEN Returns(h, ln, FALSE, state, <<>>, <<>>, <<>>)
       ELSE IF ln[1] \in {S_quit, S_exit}
       THEN Returns(h, ln, TRUE, state, <<Blank>>, <<>>, <<>>)
       ELSE IF ln[1] = S_help
       THEN Returns(h, ln, FALSE, state,
                    <<Blank>> \o ShellHelp(description, commands, ins)
                        \o <<Blank>>,
                    <<>>, <<>>)
       ELSE IF ln[1] \notin DOMAIN commands
       THEN Returns(h, ln, FALSE, state, <<Blank, Blank>>,
                    <<NotFound(ln[1])>>, <<>>)
       ELSE IF commands[ln[1]].command = "Sync"
       THEN Invokes(h, ln, ln[1], ln, <<Blank, Blank>>)
       ELSE Returns(h, ln, FALSE, state, <<Blank, Blank>>,
                    <<AsyncInSyncShell>>, <<>>)

\* DefaultAsyncHandler::handle_async with the arm `"quit" | "exit"` matching
\* "quit" alone.
DefaultAsyncHandler_handle_async_QuitOnly(ln) ==
    /\ pc = "ready"
    /\ UNCHANGED insertion
    /\ LET h == "DefaultAsyncHandler" IN
       IF Len(ln) = 0 THEN Returns(h, ln, FALSE, state, <<>>, <<>>, <<>>)
       ELSE IF ln[1] = S_quit
       THEN Returns(h, ln, TRUE, state, <<Blank>>, <<>>, <<>>)
       ELSE IF ln[1] = S_help
       THEN \E order \in IterationOrders(DOMAIN commands) :
                Returns(h, ln, FALSE, state,
                        <<Blank>> \o ShellHelp(description, commands, order)
                            \o <<Blank>>,
                        <<>>, <<>>)
       ELSE IF ln[1] \notin DOMAIN commands
       THEN Returns(h, ln, FALSE, state, <<Blank, Blank>>,
                    <<NotFound(ln[1])>>, <<>>)
       ELSE Invokes(h, ln, ln[1], ln, <<Blank, Blank>>)

\* DefaultAsyncHandler::handle_async; `commands` is a HashMap.
DefaultAsyncHandler_handle_async(ln) ==
    /\ pc = "ready"
    /\ UNCHANGED insertion
    /\ LET h == "DefaultAsyncHandler" IN
       IF Len(ln) = 0 THEN Returns(h, ln, FALSE, state, <<>>, <<>>, <<>>)
       ELSE IF ln[1] \in {S_quit, S_exit}
       THEN Returns(h, ln, TRUE, state, <<Blank>>, <<>>, <<>>)
       ELSE IF ln[1] = S_help
       THEN \E order \in IterationOrders(DOMAIN commands) :
                Returns(h, ln, FALSE, state,
                        <<Blank>> \o ShellHelp(description, commands, order)
                            \o <<Blank>>,
                        <<>>, <<>>)
       ELSE IF ln[1] \notin DOMAIN commands
       THEN Returns(h, ln, FALSE, state, <<Blank, Blank>>,
                    <<NotFound(ln[1])>>, <<>>)
       ELSE Invokes(h, ln, ln[1], ln, <<Blank, Blank>>)

\* DefaultCommandLineHandler::handle looking the name up in the registry
\* before it matches the built-ins.
DefaultCommandLineHandler_handle_RegistryFirst(ln) ==
    /\ pc = "ready"
    /\ UNCHANGED insertion
    /\ LET h == "DefaultCommandLineHandler" IN
       IF Len(ln) < 2 THEN Returns(h, ln, FALSE, state, <<>>, <<>>, <<>>)
       ELSE IF ln[2] \in DOMAIN commands /\ commands[ln[2]].command = "Sync"
       THEN Invokes(h, ln, ln[2], Tail(ln), <<Blank>>)
       ELSE IF ln[2] \in DOMAIN commands
       THEN Returns(h, ln, FALSE, state, <<Blank>>, <<AsyncInSyncApp>>, <<>>)
       ELSE IF ln[2] \in {S_quit, S_exit, S_dquit, S_dexit}
       THEN Returns(h, ln, TRUE, state, <<>>, <<>>, <<>>)
       ELSE IF ln[2] \in {S_help, S_dhelp}
       THEN \E order \in IterationOrders(DOMAIN CmdHelp(commands)) :
                Returns(h, ln, FALSE, state,
                        AppHelp(ln, proj_name, description, commands, order)
                            \o <<Blank>>,
                        <<>>, <<>>)
       ELSE Returns(h, ln, FALSE, state, <<Blank>>,
                    <<NotFound(Tail(ln)[1])>>, <<>>)

\* DefaultCommandLineHandler::handle with the padding `println!()` after the
\* `if let Some(command) = line.get(1)` block instead of inside it.
DefaultCommandLineHandler_handle_PadsAlways(ln) ==
    /\ pc = "ready"
    /\ UNCHANGED insertion
    /\ LET h == "DefaultCommandLineHandler" IN
       IF Len(ln) < 2 THEN Returns(h, ln, FALSE, state, <<Blank>>, <<>>, <<>>)
       ELSE IF ln[2] \in {S_quit, S_exit, S_dquit, S_dexit}
       THEN Returns(h, ln, TRUE, state, <<>>, <<>>, <<>>)
       ELSE IF ln[2] \in {S_help, S_dhelp}
       THEN \E order \in IterationOrders(DOMAIN CmdHelp(commands)) :
                Returns(h, ln, FALSE, state,
                        AppHelp(ln, proj_name, description, commands, order)
                            \o <<Blank>>,
                        <<>>, <<>>)
       ELSE IF ln[2] \notin DOMAIN commands
       THEN Returns(h, ln, FALSE, state, <<Blank>>,
                    <<NotFound(Tail(ln)[1])>>, <<>>)
       ELSE IF commands[ln[2]].command = "Sync"
       THEN Invokes(h, ln, ln[2], Tail(ln), <<Blank>>)
       ELSE Returns(h, ln, FALSE, state, <<Blank>>, <<AsyncInSyncApp>>, <<>>)

\* DefaultCommandLineHandler::handle with `line.get(0)` for the command and
\* the whole list for its arguments, as the interactive handlers have them.
DefaultCommandLineHandler_handle_Argv0(ln) ==
    /\ pc = "ready"
    /\ UNCHANGED insertion
    /\ LET h == "DefaultCommandLineHandler" IN
       IF Len(ln) < 1 THEN Returns(h, ln, FALSE, state, <<>>, <<>>, <<>>)
       ELSE IF ln[1] \in {S_quit, S_exit, S_dquit, S_dexit}
       THEN Returns(h, ln, TRUE, state, <<>>, <<>>, <<>>)
       ELSE IF ln[1] \in {S_help, S_dhelp}
       THEN \E order \in IterationOrders(DOMAIN CmdHelp(commands)) :
                Returns(h, ln, FALSE, state,
                        AppHelp(ln, proj_name, description, commands, order)
                            \o <<Blank>>,
                        <<>>, <<>>)
       ELSE IF ln[1] \notin DOMAIN commands
       THEN Returns(h, ln, FALSE, state, <<Blank>>,
                    <<NotFound(ln[1])>>, <<>>)
       ELSE IF commands[ln[1]].command = "Sync"
       THEN Invokes(h, ln, ln[1], ln, <<Blank>>)
       ELSE Returns(h, ln, FALSE, state, <<Blank>>, <<AsyncInSyncApp>>, <<>>)

\* DefaultCommandLineHandler::handle handing the whole list, program name
\* included, to the command instead of `line[1..]`.
DefaultCommandLineHandler_handle_KeepsArgv0(ln) ==
    /\ pc = "ready"
    /\ UNCHANGED insertion
    /\ LET h == "DefaultCommandLineHandler" IN
       IF Len(ln) < 2 THEN Returns(h, ln, FALSE, state, <<>>, <<>>, <<>>)
       ELSE IF ln[2] \in {S_quit, S_exit, S_dquit, S_dexit}
       THEN Returns(h, ln, TRUE, state, <<>>, <<>>, <<>>)
       ELSE IF ln[2] \in {S_help, S_dhelp}
       THEN \E order \in IterationOrders(DOMAIN CmdHelp(commands)) :
                Returns(h, ln, FALSE, state,
                        AppHelp(ln, proj_name, description, commands, order)
                            \o <<Blank>>,
                        <<>>, <<>>)
       ELSE IF ln[2] \notin DOMAIN commands
       THEN Returns(h, ln, FALSE, state, <<Blank>>,
                    <<NotFound(Tail(ln)[1])>>, <<>>)
       ELSE IF commands[ln[2]].command = "Sync"
       THEN Invokes(h, ln, ln[2], ln, <<Blank>>)
       ELSE Returns(h, ln, FALSE, state, <<Blank>>, <<AsyncInSyncApp>>, <<>>)

\* DefaultCommandLineHandler::handle; `commands` and cmd_help are HashMaps.
DefaultCommandLineHandler_handle(ln) ==
    /\ pc = "ready"
    /\ UNCHANGED insertion
    /\ LET h == "DefaultCommandLineHandler" IN
       IF Len(ln) < 2 THEN Returns(h, ln, FALSE, state, <<>>, <<>>, <<>>)
       ELSE IF ln[2] \in {S_quit, S_exit, S_dquit, S_dexit}
       THEN Returns(h, ln, TRUE, state, <<>>, <<>>, <<>>)
       ELSE IF ln[2] \in {S_help, S_dhelp}
       THEN \E order \in IterationOrders(DOMAIN CmdHelp(commands)) :
                Returns(h, ln, FALSE, state,
                        AppHelp(ln, proj_name, description, commands, order)
                            \o <<Blank>>,
                        <<>>, <<>>)
       ELSE IF ln[2] \notin DOMAIN commands
       THEN Returns(h, ln, FALSE, state, <<Blank>>,
                    <<NotFound(Tail(ln)[1])>>, <<>>)
       ELSE IF commands[ln[2]].command = "Sync"
       THEN Invokes(h, ln, ln[2], Tail(ln), <<Blank>>)
       ELSE Returns(h, ln, FALSE, state, <<Blank>>, <<AsyncInSyncApp>>, <<>>)

\* DefaultAsyncCLIHandler::handle_async reporting line[0] of the whole
\* argument list, the program name, as the command not found.
DefaultAsyncCLIHandler_handle_async_ReportsArgv0(ln) ==
    /\ pc = "ready"
    /\ UNCHANGED insertion
    /\ LET h == "DefaultAsyncCLIHandler" IN
       IF Len(ln) < 2 THEN Returns(h, ln, FALSE, state, <<>>, <<>>, <<>>)
       ELSE IF ln[2] \in {S_quit, S_exit, S_dquit, S_dexit}
       THEN Returns(h, ln, TRUE, state, <<>>, <<>>, <<>>)
       ELSE IF ln[2] \in {S_help, S_dhelp}
       THEN \E order \in IterationOrders(DOMAIN CmdHelp(commands)) :
                Returns(h, ln, FALSE, state,
                        AppHelp(ln, proj_name, description, commands, order)
                            \o <<Blank>>,
                        <<>>, <<>>)
       ELSE IF ln[2] \notin DOMAIN commands
       THEN Returns(h, ln, FALSE, state, <<Blank>>, <<NotFound(ln[1])>>, <<>>)
       ELSE Invokes(h, ln, ln[2], Tail(ln), <<Blank>>)

\* DefaultAsyncCLIHandler::handle_async with the arm `"quit" | "exit"` of the
\* interactive handlers, which has no "--quit" and no "--exit".
DefaultAsyncCLIHandler_handle_async_NoFlags(ln) ==
    /\ pc = "ready"
    /\ UNCHANGED insertion
    /\ LET h == "DefaultAsyncCLIHandler" IN
       IF Len(ln) < 2 THEN Returns(h, ln, FALSE, state, <<>>, <<>>, <<>>)
       ELSE IF ln[2] \in {S_quit, S_exit}
       THEN Returns(h, ln, TRUE, state, <<>>, <<>>, <<>>)
       ELSE IF ln[2] \in {S_help, S_dhelp}
       THEN \E order \in IterationOrders(DOMAIN CmdHelp(commands)) :
                Returns(h, ln, FALSE, state,
                        AppHelp(ln, proj_name, description, commands, order)
                            \o <<Blank>>,
                        <<>>, <<>>)
       ELSE IF ln[2] \notin DOMAIN commands
       THEN Returns(h, ln, FALSE, state, <<Blank>>,
                    <<NotFound(Tail(ln)[1])>>, <<>>)
       ELSE Invokes(h, ln, ln[2], Tail(ln), <<Blank>>)

\* DefaultAsyncCLIHandler::handle_async; `commands` and cmd_help are HashMaps.
DefaultAsyncCLIHandler_handle_async(ln) ==
    /\ pc = "ready"
    /\ UNCHANGED insertion
    /\ LET h == "DefaultAsyncCLIHandler" IN
       IF Len(ln) < 2 THEN Returns(h, ln, FALSE, state, <<>>, <<>>, <<>>)
       ELSE IF ln[2] \in {S_quit, S_exit, S_dquit, S_dexit}
       THEN Returns(h, ln, TRUE, state, <<>>, <<>>, <<>>)
       ELSE IF ln[2] \in {S_help, S_dhelp}
       THEN \E order \in IterationOrders(DOMAIN CmdHelp(commands)) :
                Returns(h, ln, FALSE, state,
                        AppHelp(ln, proj_name, description, commands, order)
                            \o <<Blank>>,
                        <<>>, <<>>)
       ELSE IF ln[2] \notin DOMAIN commands
       THEN Returns(h, ln, FALSE, state, <<Blank>>,
                    <<NotFound(Tail(ln)[1])>>, <<>>)
       ELSE Invokes(h, ln, ln[2], Tail(ln), <<Blank>>)

\* No call of unescape runs while the handlers are examined.
UnescapeIdle ==
    /\ input = <<>>
    /\ command = <<>>
    /\ idx = 0
    /\ vec = <<>>
    /\ escape = FALSE
    /\ string = FALSE
    /\ ret = NoRet
    /\ pass = 0
    /\ first = NoRet

\* A registry of at most MaxCmds commands, any state, and a handler about
\* to be called once.
InitHandle ==
    /\ pc = "ready"
    /\ commands \in {[n \in S |-> Command(n)] :
                        S \in {S \in SUBSET UserNames : Cardinality(S) <= MaxCmds}}
    /\ insertion = <<>>
    /\ state \in States
    /\ state_in = state
    /\ description = "a shell"
    /\ proj_name \in {{}, {S_app}}
    /\ handler = "none"
    /\ line = <<>>
    /\ result = "none"
    /\ stdout = <<>>
    /\ stderr = <<>>
    /\ calls = <<>>
    /\ prev = NoRet
    /\ UnescapeIdle
    /\ RunIdle
    /\ AppIdle

NextHandle ==
    \/ \E ln \in Lines, ins \in IterationOrders(DOMAIN commands) :
            DefaultHandler_handle(ln, ins)
    \/ \E ln \in Lines : DefaultAsyncHandler_handle_async(ln)
    \/ \E ln \in Argvs : DefaultCommandLineHandler_handle(ln)
    \/ \E ln \in Argvs : DefaultAsyncCLIHandler_handle_async(ln)

SpecHandle == InitHandle /\ [][NextHandle]_vars

---------------------------------------------------------------------------
(* The interactive loop: Shell::run and Shell::run_async *)

\* most calls of input_handler.read that return a line or an interrupt;
\* after them the line source returns EOF or fails
MaxReads == 2

\* InputResult, and the Err of io::Result<InputResult>
S(l) == [tag |-> "S", val |-> l]
Interrupted == [tag |-> "Interrupted"]
EOF == [tag |-> "EOF"]
IoErr == [tag |-> "Err", err |-> "io::Error"]

\* char::is_whitespace, on the characters of the model
Whitespace == {SP, TAB, NL, CR}

\* str::trim
RECURSIVE trim_start(_)
trim_start(s) ==
    IF s # <<>> /\ Head(s) \in Whitespace THEN trim_start(Tail(s)) ELSE s
RECURSIVE trim_end(_)
trim_end(s) ==
    IF s # <<>> /\ s[Len(s)] \in Whitespace
    THEN trim_end(SubSeq(s, 1, Len(s) - 1))
    ELSE s
trim(s) == trim_end(trim_start(s))

\* The for loop of unescape over the characters s, from the locals l, left at
\* the first return from inside the loop; x is the locals after one
\* iteration.
RECURSIVE Scan(_, _)
Scan(l, s) ==
    IF s = <<>> \/ l.ret # NoRet THEN l
    ELSE CHOOSE y \in {Scan(x, Tail(s)) : x \in {UnescapeChar(l, Head(s))}} : TRUE

\* Shell::unescape as a function of its argument.
unescape(s) ==
    LET l == Scan([vec |-> UnescapeStart.vec, escape |-> UnescapeStart.escape,
                   string |-> UnescapeStart.string, ret |-> NoRet], s)
    IN IF l.ret # NoRet THEN l.ret ELSE UnescapeEnd(l)

\* eprintln!("{}", Paint::red(e.to_string())) with the Display of
\* UnescapeError
ParseError(e) ==
    IF e.err = "UnhandledEscapeSequence"
    THEN Report("unhandled escape sequence \\", <<e.ch>>)
    ELSE Report("unclosed quotes", <<>>)

\* The lines the line source returns: quit between spaces, a command, exit
\* with the newline read_line keeps, quit in quotes, quit before a trailing
\* backslash, an unclosed quote, an unhandled escape, the empty line, a line
\* of whitespace, an unknown command with an argument, an async command,
\* help.
RawLines ==
    { <<SP>> \o S_quit \o <<SP>>,
      S_count,
      S_exit \o <<NL>>,
      <<DQ>> \o S_quit \o <<DQ>>,
      S_quit \o <<BS>>,
      <<DQ, "q">>,
      S_count \o <<SP, BS, "q">>,
      <<>>,
      <<SP, TAB, NL>>,
      S_nope \o <<SP>> \o S_x,
      S_cat,
      S_help }

ReadResults == {S(l) : l \in RawLines} \cup {Interrupted, EOF, IoErr}

\* The names the registry of the shell is made of: a synchronous command, an
\* asynchronous one, and one hidden by the built-in "quit".
ShellNames == {S_count, S_cat, S_quit}

\* What a step of the loop itself leaves alone in the handlers' variables.
loop_frame == <<commands, insertion, state, description, proj_name, handler,
                line, result, stdout, calls, prev>>

\* `self.input_handler.read(&self.prompt.to_string())` returns r.
Read(r) ==
    /\ pc = "read"
    /\ r.tag \in {"S", "Interrupted"} => reads < MaxReads
    /\ last' = r
    /\ reads' = reads + 1
    /\ pc' = "got"
    /\ UNCHANGED <<mode, inflight, tokens, run_ret, handler_vars, unescape_vars,
                   app_vars>>

\* RunErr resuming the loop after a failed read.
RunErrContinues ==
    /\ pc = "got"
    /\ last.tag = "Err"
    /\ pc' = "read"
    /\ UNCHANGED <<mode, inflight, last, tokens, reads, run_ret, handler_vars,
                   unescape_vars, app_vars>>

\* The `?` on the result of read: an Err is returned from run.
RunErr ==
    /\ pc = "got"
    /\ last.tag = "Err"
    /\ run_ret' = last
    /\ pc' = "terminated"
    /\ UNCHANGED <<mode, inflight, last, tokens, reads, handler_vars, unescape_vars,
                   app_vars>>

\* RunInterrupted with `break` for `continue`.
RunInterruptedBreaks ==
    /\ pc = "got"
    /\ last.tag = "Interrupted"
    /\ run_ret' = Ok(<<>>)
    /\ pc' = "terminated"
    /\ UNCHANGED <<mode, inflight, last, tokens, reads, handler_vars, unescape_vars,
                   app_vars>>

\* `InputResult::Interrupted => continue '_shell`
RunInterrupted ==
    /\ pc = "got"
    /\ last.tag = "Interrupted"
    /\ pc' = "read"
    /\ UNCHANGED <<mode, inflight, last, tokens, reads, run_ret, handler_vars,
                   unescape_vars, app_vars>>

\* `InputResult::EOF => break '_shell`, then `Ok(())`
RunEOF ==
    /\ pc = "got"
    /\ last.tag = "EOF"
    /\ run_ret' = Ok(<<>>)
    /\ pc' = "terminated"
    /\ UNCHANGED <<mode, inflight, last, tokens, reads, handler_vars, unescape_vars,
                   app_vars>>

\* RunLine handing an empty token list to the handler when unescape fails.
RunLineDispatchesOnError ==
    /\ pc = "got"
    /\ last.tag = "S"
    /\ LET r == unescape(trim(last.val)) IN
        /\ tokens' = IF r.tag = "Ok" THEN r.val ELSE <<>>
        /\ state_in' = state
        /\ stderr' = IF r.tag = "Ok" THEN stderr ELSE <<ParseError(r)>>
        /\ pc' = "ready"
    /\ UNCHANGED <<mode, inflight, last, reads, run_ret, loop_frame, unescape_vars,
                   app_vars>>

\* RunLine with `Self::unescape(&line)` for `Self::unescape(line.trim())`.
RunLineNoTrim ==
    /\ pc = "got"
    /\ last.tag = "S"
    /\ LET r == unescape(last.val) IN
        IF r.tag = "Ok"
        THEN /\ tokens' = r.val
             /\ state_in' = state
             /\ pc' = "ready"
             /\ UNCHANGED stderr
        ELSE /\ stderr' = <<ParseError(r)>>
             /\ pc' = "read"
             /\ UNCHANGED <<tokens, state_in>>
    /\ UNCHANGED <<mode, inflight, last, reads, run_ret, loop_frame, unescape_vars,
                   app_vars>>

\* `InputResult::S(line) => line`, then `match Self::unescape(line.trim())`:
\* Ok(line) goes to the handler, Err(e) is printed and the loop goes on.
RunLine ==
    /\ pc = "got"
    /\ last.tag = "S"
    /\ LET r == unescape(trim(last.val)) IN
        IF r.tag = "Ok"
        THEN /\ tokens' = r.val
             /\ state_in' = state
             /\ pc' = "ready"
             /\ UNCHANGED stderr
        ELSE /\ stderr' = <<ParseError(r)>>
             /\ pc' = "read"
             /\ UNCHANGED <<tokens, state_in>>
    /\ UNCHANGED <<mode, inflight, last, reads, run_ret, loop_frame, unescape_vars,
                   app_vars>>

\* RunHandled going on with the loop whatever the handler returned.
RunHandledIgnoresResult ==
    /\ pc = "handled"
    /\ mode \in {"run", "run_async"}
    /\ pc' = "read"
    /\ UNCHANGED <<mode, inflight, last, tokens, reads, run_ret, handler_vars,
                   unescape_vars, app_vars>>

\* `if self.handler.handle(..) { break '_shell; }`, then `Ok(())`
RunHandled ==
    /\ pc = "handled"
    /\ mode \in {"run", "run_async"}
    /\ IF result
       THEN pc' = "terminated" /\ run_ret' = Ok(<<>>)
       ELSE pc' = "read" /\ UNCHANGED run_ret
    /\ UNCHANGED <<mode, inflight, last, tokens, reads, handler_vars, unescape_vars,
                   app_vars>>

\* A shell with a registry of at most MaxCmds commands, about to read its
\* first line.
InitRun ==
    /\ pc = "read"
    /\ mode \in {"run", "run_async"}
    /\ commands \in {[n \in N |-> Command(n)] :
                        N \in {N \in SUBSET ShellNames : Cardinality(N) <= MaxCmds}}
    /\ insertion \in IterationOrders(DOMAIN commands)
    /\ state \in States
    /\ state_in = state
    /\ description = "a shell"
    /\ proj_name = {}
    /\ handler = "none"
    /\ line = <<>>
    /\ result = "none"
    /\ stdout = <<>>
    /\ stderr = <<>>
    /\ calls = <<>>
    /\ prev = NoRet
    /\ UnescapeIdle
    /\ last = NoRet
    /\ tokens = <<>>
    /\ reads = 0
    /\ run_ret = NoRet
    /\ inflight = 0
    /\ AppIdle

NextRun ==
    \/ \E r \in ReadResults : Read(r)
    \/ RunErr
    \/ RunInterrupted
    \/ RunEOF
    \/ RunLine
    \/ mode = "run" /\ DefaultHandler_handle(tokens, insertion)
    \/ mode = "run_async" /\ DefaultAsyncHandler_handle_async(tokens)
    \/ RunHandled

SpecRun == InitRun /\ [][NextRun]_vars

\* The line source answers every read, every command body returns, and the
\* loop takes its next step.
FairSpecRun == SpecRun /\ WF_vars(NextRun)

---------------------------------------------------------------------------
(* The loop with input_handler::IO as its line source *)

\* What stdin holds: lines with the newline read_line keeps, among them a
\* blank line, a line of whitespace, quit between spaces and a line that
\* ends with an escaped space, and a last line without a newline.
IOLines ==
    { S_quit \o <<NL>>,
      S_count \o <<NL>>,
      <<NL>>,
      <<SP, TAB, NL>>,
      <<SP>> \o S_quit \o <<SP, NL>>,
      S_count \o <<SP, "q", BS, SP, NL>>,
      S_nope }

\* read_line has returned Ok(0) and left the buffer empty: stdin is at its
\* end.
AtEndOfInput == last = S(<<>>)

\* IO_read answering the end of stdin with InputResult::EOF.
IO_read_EOF ==
    /\ pc = "read"
    /\ \E r \in {S(l) : l \in IOLines} \cup {EOF, IoErr} :
        /\ r.tag = "S" => (last.tag # "EOF" /\ reads < MaxReads)
        /\ last' = r
        /\ reads' = IF r.tag = "S" THEN reads + 1 ELSE reads
    /\ pc' = "got"
    /\ UNCHANGED <<mode, inflight, tokens, run_ret, handler_vars, unescape_vars,
                   app_vars>>

\* IO::read: the prompt is printed and flushed, read_line fills the buffer
\* with the next line of stdin, or with nothing when stdin is at its end, and
\* the buffer is returned as InputResult::S; a failure of flush or of
\* read_line is returned by `?`.
IO_read ==
    /\ pc = "read"
    /\ \E r \in {S(l) : l \in IOLines \cup {<<>>}} \cup {IoErr} :
        /\ (r.tag = "S" /\ r.val # <<>>) => (~AtEndOfInput /\ reads < MaxReads)
        /\ last' = r
        /\ reads' = IF r.tag = "S" /\ r.val # <<>> THEN reads + 1 ELSE reads
    /\ pc' = "got"
    /\ UNCHANGED <<mode, inflight, tokens, run_ret, handler_vars, unescape_vars,
                   app_vars>>

\* A shell made by Shell::new or Shell::new_async, whose input handler is IO.
InitIO == InitRun

\* The arms for Interrupted and EOF are left out: IO::read returns neither.
NextIO ==
    \/ IO_read
    \/ RunErr
    \/ RunLine
    \/ mode = "run" /\ DefaultHandler_handle(tokens, insertion)
    \/ mode = "run_async" /\ DefaultAsyncHandler_handle_async(tokens)
    \/ RunHandled

SpecIO == InitIO /\ [][NextIO]_vars

\* Every read returns, every command body returns, and the loop takes its
\* next step.
FairSpecIO == SpecIO /\ WF_vars(NextIO)

---------------------------------------------------------------------------
(* The app: App::new / try_from, load_cache, run_vec and run_vec_async *)

\* most calls of run_vec / run_vec_async
MaxRuns == 2

\* the state the program constructs its shell and its app with
InitialState == 0

\* serde_json::to_string of the counter: its decimal digits
Digit(d) == <<"0", "1", "2", "3", "4", "5", "6", "7", "8", "9">>[d + 1]
RECURSIVE to_string(_)
to_string(n) ==
    IF n < 10 THEN <<Digit(n)>>
    ELSE to_string(n \div 10) \o <<Digit(n % 10)>>

\* serde_json::Error
SerdeErr == [tag |-> "Err", err |-> "serde_json::Error"]
\* io::Error of kind NotFound
NotFoundErr == [tag |-> "Err", err |-> "io::ErrorKind::NotFound"]

\* The value of the digit c, or 10 when c is no digit.
DigitValue(c) ==
    IF \E d \in 0..9 : Digit(d) = c THEN CHOOSE d \in 0..9 : Digit(d) = c
    ELSE 10

\* The number read so far (acc) continued with the digits t.
RECURSIVE Number(_, _)
Number(acc, t) ==
    IF t = <<>> THEN acc
    ELSE Number(acc * 10 + DigitValue(Head(t)), Tail(t))

\* serde_json::from_str::<u64>: whitespace around one number without sign,
\* fraction, exponent or leading zero; anything else is an error.
from_str(text) ==
    LET t == trim(text) IN
    IF /\ t # <<>>
       /\ \A i \in 1..Len(t) : DigitValue(t[i]) < 10
       /\ (Len(t) > 1 => t[1] # "0")
    THEN Ok(Number(0, t))
    ELSE SerdeErr

\* What the cache file may hold when the program starts: nothing, the text
\* of a state, or text that is no state.
Stores == {{}} \cup {{to_string(v)} : v \in States} \cup {{<<"q">>}}

\* The registries of the app: none, a synchronous or an asynchronous command.
AppRegistries == {[n \in N |-> Command(n)] : N \in {{}, {S_count}, {S_cat}}}

\* The argument lists the app is run with; the program name comes first.
AppArgvs ==
    { <<>>, <<S_prog>>,
      <<S_prog, S_quit>>, <<S_prog, S_dexit>>,
      <<S_prog, S_help>>,
      <<S_prog, S_count>>, <<S_prog, S_count, S_x>>,
      <<S_prog, S_cat>>,
      <<S_prog, S_nope>> }

app_frame == <<commands, insertion, description, proj_name, handler, line,
               result, stdout, stderr, calls, prev>>

\* The constructor returned Ok(this).
Constructed == Ok("App")

\* The states the caller hands to the constructor.
Defaults == {InitialState, MaxState}

\* AppNew without the call of load_cache.
AppNewIgnoresCache ==
    /\ pc \in {"new", "returned"}
    /\ runs < MaxRuns
    /\ \E d \in Defaults :
        /\ given' = d
        /\ state' = d
        /\ app_ret' = Constructed
        /\ pc' = "ready"
    /\ state_in' = state'
    /\ UNCHANGED <<app_frame, unescape_vars, run_vars, store, cache, runs>>

\* AppNew with `if let Ok(state) = serde_json::from_str(..)` for the `?`: text
\* that does not parse is passed over.
AppNewDiscardsMalformed ==
    /\ pc \in {"new", "returned"}
    /\ runs < MaxRuns
    /\ \E d \in Defaults :
        /\ given' = d
        /\ IF cache /\ store # {}
           THEN LET parsed == from_str(CHOOSE text \in store : TRUE) IN
                state' = IF parsed.tag = "Ok" THEN parsed.val ELSE d
           ELSE state' = d
        /\ app_ret' = Constructed
        /\ pc' = "ready"
    /\ state_in' = state'
    /\ UNCHANGED <<app_frame, unescape_vars, run_vars, store, cache, runs>>

\* The program starts: the constructor (App::new, new_with_handler, try_from,
\* try_from_async) takes the state d of its caller and calls load_cache, which
\* replaces it by the state parsed from the cache file when get_cache() is
\* Some and the file opens, and fails when the text does not parse.
AppNew ==
    /\ pc \in {"new", "returned"}
    /\ runs < MaxRuns
    /\ \E d \in Defaults :
        /\ given' = d
        /\ IF cache /\ store # {}
           THEN LET parsed == from_str(CHOOSE text \in store : TRUE) IN
                IF parsed.tag = "Ok"
                THEN /\ state' = parsed.val
                     /\ app_ret' = Constructed
                     /\ pc' = "ready"
                ELSE /\ state' = d
                     /\ app_ret' = parsed
                     /\ pc' = "failed"
           ELSE /\ state' = d
                /\ app_ret' = Constructed
                /\ pc' = "ready"
    /\ state_in' = state'
    /\ UNCHANGED <<app_frame, unescape_vars, run_vars, store, cache, runs>>

\* The caller runs the same app once more.
AppAgain ==
    /\ pc = "returned"
    /\ runs < MaxRuns
    /\ app_ret' = NoRet
    /\ state_in' = state
    /\ pc' = "ready"
    /\ UNCHANGED <<state, app_frame, unescape_vars, run_vars, store, cache,
                   runs, given>>

\* RunVecCache writing the state only when a command body ran.
RunVecCacheSkipsNoCommand ==
    /\ pc = "handled"
    /\ mode \in {"run_vec", "run_vec_async"}
    /\ IF ~cache
       THEN app_ret' = Ok(result) /\ UNCHANGED store
       ELSE IF result
       THEN IF store = {}
            THEN app_ret' = NotFoundErr /\ UNCHANGED store
            ELSE app_ret' = Ok(result) /\ store' = {}
       ELSE /\ app_ret' = Ok(result)
            /\ store' = IF calls = <<>> THEN store ELSE {to_string(state)}
    /\ runs' = runs + 1
    /\ pc' = "returned"
    /\ UNCHANGED <<handler_vars, unescape_vars, run_vars, cache, given>>

\* RunVecCache leaving the cache file in place when the handler returned
\* true.
RunVecCacheKeepsOnQuit ==
    /\ pc = "handled"
    /\ mode \in {"run_vec", "run_vec_async"}
    /\ IF ~cache \/ result
       THEN app_ret' = Ok(result) /\ UNCHANGED store
       ELSE app_ret' = Ok(result) /\ store' = {to_string(state)}
    /\ runs' = runs + 1
    /\ pc' = "returned"
    /\ UNCHANGED <<handler_vars, unescape_vars, run_vars, cache, given>>

\* The `match result` of run_vec and run_vec_async: on true the cache file is
\* removed with fs::remove_file, which fails when there is no file; on false
\* the directory and the file are created and the state is written.  Without
\* a cache path nothing is done.  Then `Ok(result)`.
RunVecCache ==
    /\ pc = "handled"
    /\ mode \in {"run_vec", "run_vec_async"}
    /\ IF ~cache
       THEN app_ret' = Ok(result) /\ UNCHANGED store
       ELSE IF result
       THEN IF store = {}
            THEN app_ret' = NotFoundErr /\ UNCHANGED store
            ELSE app_ret' = Ok(result) /\ store' = {}
       ELSE app_ret' = Ok(result) /\ store' = {to_string(state)}
    /\ runs' = runs + 1
    /\ pc' = "returned"
    /\ UNCHANGED <<handler_vars, unescape_vars, run_vars, cache, given>>

\* A program about to construct its app, with one of the registries and
\* whatever the cache file holds.
InitApp ==
    /\ pc = "new"
    /\ mode \in {"run_vec", "run_vec_async"}
    /\ commands \in AppRegistries
    /\ insertion = <<>>
    /\ state = InitialState
    /\ state_in = state
    /\ description = "an app"
    /\ proj_name \in {{}, {S_app}}
    /\ handler = "none"
    /\ line = <<>>
    /\ result = "none"
    /\ stdout = <<>>
    /\ stderr = <<>>
    /\ calls = <<>>
    /\ prev = NoRet
    /\ UnescapeIdle
    /\ last = NoRet
    /\ tokens = <<>>
    /\ reads = 0
    /\ run_ret = NoRet
    /\ inflight = 0
    /\ store \in Stores
    /\ cache \in BOOLEAN
    /\ app_ret = NoRet
    /\ runs = 0
    /\ given = InitialState

NextApp ==
    \/ AppNew
    \/ AppAgain
    \/ mode = "run_vec" /\ \E ln \in AppArgvs : DefaultCommandLineHandler_handle(ln)
    \/ mode = "run_vec_async"
            /\ \E ln \in AppArgvs : DefaultAsyncCLIHandler_handle_async(ln)
    \/ RunVecCache

SpecApp == InitApp /\ [][NextApp]_vars

\* Invocations of a program with a cache path: each one constructs its app,
\* which loads the cache file, and calls run_vec or run_vec_async once.
InitInvocation == InitApp /\ cache

NextInvocation ==
    \/ AppNew
    \/ mode = "run_vec" /\ \E ln \in AppArgvs : DefaultCommandLineHandler_handle(ln)
    \/ mode = "run_vec_async"
            /\ \E ln \in AppArgvs : DefaultAsyncCLIHandler_handle_async(ln)
    \/ RunVecCache

SpecInvocation == InitInvocation /\ [][NextInvocation]_vars

---------------------------------------------------------------------------
(* The asynchronous handlers with the await of the command as a step *)

\* The token list the handler h looks the command up in: the whole list for
\* the interactive handler, the list behind the program name for the CLI
\* handler.
Looked(h, ln) ==
    IF h = "DefaultAsyncHandler" THEN ln
    ELSE IF ln = <<>> THEN <<>> ELSE Tail(ln)

\* The names the match of the handler h takes before the registry.
BuiltIns(h) ==
    IF h = "DefaultAsyncHandler" THEN {S_quit, S_exit, S_help}
    ELSE {S_quit, S_exit, S_dquit, S_dexit, S_help, S_dhelp}

\* The handler h, given ln, comes to `CommandType::Async(a) =>
\* a(state, line).await`.
AwaitsBody(h, ln) ==
    /\ Looked(h, ln) # <<>>
    /\ Looked(h, ln)[1] \notin BuiltIns(h)
    /\ Looked(h, ln)[1] \in DOMAIN commands
    /\ commands[Looked(h, ln)[1]].command = "Async"

await_frame == <<commands, insertion, state_in, description, proj_name, prev,
                 unescape_vars, mode, last, tokens, reads, run_ret, app_vars>>

\* AwaitBegin with the future handed to the executor (a spawn) instead of
\* awaited: the handler goes on to its padding and returns false.
AwaitBeginDetached(h, ln) ==
    /\ pc = "ready"
    /\ AwaitsBody(h, ln)
    /\ handler' = h
    /\ line' = ln
    /\ stdout' = IF h = "DefaultAsyncHandler" THEN <<Blank, Blank>> ELSE <<Blank>>
    /\ stderr' = <<>>
    /\ calls' = <<>>
    /\ result' = FALSE
    /\ inflight' = inflight + 1
    /\ pc' = "handled"
    /\ UNCHANGED <<state, await_frame>>

\* The asynchronous handler h, given ln, creates the future `a(state, line)`
\* of the command and awaits it: the handler, and with it run_async or
\* run_vec_async, is suspended until the future completes.
AwaitBegin(h, ln) ==
    /\ pc = "ready"
    /\ AwaitsBody(h, ln)
    /\ handler' = h
    /\ line' = ln
    /\ stdout' = IF h = "DefaultAsyncHandler" THEN <<Blank>> ELSE <<>>
    /\ stderr' = <<>>
    /\ calls' = <<>>
    /\ inflight' = inflight + 1
    /\ pc' = "awaiting"
    /\ UNCHANGED <<state, result, await_frame>>

\* The awaited future completes: the body has left a state and returned Ok
\* or Err; the handler reports the Err, prints its padding and returns false.
AwaitComplete ==
    /\ pc = "awaiting"
    /\ \E st \in States, ok \in BOOLEAN :
        /\ state' = st
        /\ stderr' = IF ok THEN <<>> ELSE <<ExitedUnsuccessfully>>
        /\ calls' = <<[name |-> Looked(handler, line)[1],
                       args |-> Looked(handler, line),
                       left |-> st, ok |-> ok]>>
    /\ stdout' = Append(stdout, Blank)
    /\ result' = FALSE
    /\ inflight' = inflight - 1
    /\ pc' = "handled"
    /\ UNCHANGED <<handler, line, await_frame>>

\* run_async of a shell, or run_vec_async of an app.
InitAwait ==
    \/ InitRun /\ mode = "run_async"
    \/ InitApp /\ mode = "run_vec_async"

NextAwait ==
    \/ \E r \in ReadResults : Read(r)
    \/ RunErr
    \/ RunInterrupted
    \/ RunEOF
    \/ RunLine
    \/ RunHandled
    \/ AppNew
    \/ AppAgain
    \/ RunVecCache
    \/ mode = "run_async"
            /\ ~AwaitsBody("DefaultAsyncHandler", tokens)
            /\ DefaultAsyncHandler_handle_async(tokens)
    \/ mode = "run_async" /\ AwaitBegin("DefaultAsyncHandler", tokens)
    \/ mode = "run_vec_async"
            /\ \E ln \in AppArgvs :
                /\ ~AwaitsBody("DefaultAsyncCLIHandler", ln)
                /\ DefaultAsyncCLIHandler_handle_async(ln)
    \/ mode = "run_vec_async"
            /\ \E ln \in AppArgvs : AwaitBegin("DefaultAsyncCLIHandler", ln)
    \/ AwaitComplete

SpecAwait == InitAwait /\ [][NextAwait]_vars

---------------------------------------------------------------------------
(* Two calls of handlers from the same state, on the same command line *)

\* The registries of the two calls: none, a synchronous command, an
\* asynchronous one, and a synchronous one named as a built-in of the CLI
\* handlers.
PairRegistries ==
    {[n \in N |-> Command(n)] : N \in {{}, {S_count}, {S_cat}, {S_dquit}}}

\* The command lines of the two calls, without a program name.
PairLines ==
    { <<>>, <<S_quit>>, <<S_exit>>, <<S_help>>, <<S_dhelp>>, <<S_dquit>>,
      <<S_count>>, <<S_count, S_x>>, <<S_cat>>, <<S_nope>> }

InteractiveHandlers == {"DefaultHandler", "DefaultAsyncHandler"}

\* The list the handler h is given for the command line of the call before:
\* the same list for a handler of the same kind, with the program name put
\* in front for a CLI handler after an interactive one, and with the program
\* name taken off for an interactive handler after a CLI one.
Related(h) ==
    IF (h \in InteractiveHandlers) = (prev.handler \in InteractiveHandlers)
    THEN prev.line
    ELSE IF h \in InteractiveHandlers THEN Tail(prev.line)
    ELSE <<S_prog>> \o prev.line

\* The list Related(h) exists: there is a program name to take off.
Relates(h) ==
    (h \in InteractiveHandlers /\ prev.handler \notin InteractiveHandlers)
        => prev.line # <<>>

\* The first call has returned; the state is put back to what it was before
\* it, for the second call.
PairAgain ==
    /\ pc = "handled"
    /\ prev = NoRet
    /\ prev' = [handler |-> handler, line |-> line, result |-> result,
                state |-> state, stdout |-> stdout, stderr |-> stderr,
                calls |-> calls]
    /\ state' = state_in
    /\ pc' = "ready"
    /\ UNCHANGED <<commands, insertion, state_in, description, proj_name,
                   handler, line, result, stdout, stderr, calls,
                   unescape_vars, run_vars, app_vars>>

\* The second call: of any handler, on the command line of the first; the
\* IndexMap of DefaultHandler keeps its insertion order.
PairSecond ==
    /\ prev # NoRet
    /\ \/ /\ Relates("DefaultHandler")
          /\ \E ins \in IterationOrders(DOMAIN commands) :
                /\ prev.handler = "DefaultHandler" => ins = insertion
                /\ DefaultHandler_handle(Related("DefaultHandler"), ins)
       \/ /\ Relates("DefaultAsyncHandler")
          /\ DefaultAsyncHandler_handle_async(Related("DefaultAsyncHandler"))
       \/ DefaultCommandLineHandler_handle(Related("DefaultCommandLineHandler"))
       \/ DefaultAsyncCLIHandler_handle_async(Related("DefaultAsyncCLIHandler"))

\* The first call: of any handler, on any of the command lines.
PairFirst ==
    /\ prev = NoRet
    /\ \/ \E ln \in PairLines, ins \in IterationOrders(DOMAIN commands) :
                DefaultHandler_handle(ln, ins)
       \/ \E ln \in PairLines : DefaultAsyncHandler_handle_async(ln)
       \/ \E ln \in PairLines :
                DefaultCommandLineHandler_handle(<<S_prog>> \o ln)
       \/ \E ln \in PairLines :
                DefaultAsyncCLIHandler_handle_async(<<S_prog>> \o ln)

InitPair ==
    /\ pc = "ready"
    /\ commands \in PairRegistries
    /\ insertion = <<>>
    /\ state \in States
    /\ state_in = state
    /\ description = "a shell"
    /\ proj_name \in {{}, {S_app}}
    /\ handler = "none"
    /\ line = <<>>
    /\ result = "none"
    /\ stdout = <<>>
    /\ stderr = <<>>
    /\ calls = <<>>
    /\ prev = NoRet
    /\ UnescapeIdle
    /\ RunIdle
    /\ AppIdle

NextPair == PairFirst \/ PairAgain \/ PairSecond

SpecPair == InitPair /\ [][NextPair]_vars

---------------------------------------------------------------------------
(* Every use of the library: one call of a handler, a shell, or an app *)

InitSession == InitHandle \/ InitRun \/ InitApp

NextSession ==
    \/ mode = "none" /\ NextHandle
    \/ NextRun
    \/ NextApp

SpecSession == InitSession /\ [][NextSession]_vars

---------------------------------------------------------------------------
(* Shell::unescape: what an input line is, read off the line itself *)

NoBackslash(s) == \A i \in 1..Len(s) : s[i] # BS
NoQuote(s) == \A i \in 1..Len(s) : s[i] # DQ
OnlySpaces(s) == \A i \in 1..Len(s) : s[i] = SP

\* The double quotes of s before position i.
QuotesBefore(s, i) == Cardinality({j \in 1..(i - 1) : s[j] = DQ})
QuotesClosed(s) == QuotesBefore(s, Len(s) + 1) % 2 = 0

\* The spaces of s that lie outside quotes (s has no backslash).
Delimiters(s) == {i \in 1..Len(s) : s[i] = SP /\ QuotesBefore(s, i) % 2 = 0}

\* s[lo..hi] with its double quotes deleted.
NotQuote(ch) == ch # DQ
Unquoted(s, lo, hi) == SelectSeq(SubSeq(s, lo, hi), NotQuote)

\* s split at its delimiters, the quotes deleted.
SplitOutsideQuotes(s) ==
    LET D == Delimiters(s) \cup {0, Len(s) + 1}
        Nth(k) == CHOOSE i \in D : Cardinality({j \in D : j < i}) = k
    IN [k \in 1..(Cardinality(D) - 1) |-> Unquoted(s, Nth(k - 1) + 1, Nth(k) - 1)]

\* The length of the run of backslashes that ends right before position i.
BackslashRun(s, i) ==
    Cardinality({k \in 1..(i - 1) : \A j \in (i - k)..(i - 1) : s[j] = BS})
\* Position i is read in escape mode (no unhandled escape before it).
Escaped(s, i) == BackslashRun(s, i) % 2 = 1
UnescapedQuotesBefore(s, i) ==
    Cardinality({j \in 1..(i - 1) : s[j] = DQ /\ ~Escaped(s, j)})
InQuotes(s, i) == UnescapedQuotesBefore(s, i) % 2 = 1
\* Position i holds an escaped character outside the escape table.
UnhandledAt(s, i) ==
    /\ Escaped(s, i)
    /\ \/ s[i] \notin {BS, "n", "r", "t", DQ, SP}
       \/ s[i] = SP /\ InQuotes(s, i)
HasUnhandled(s) == \E i \in 1..Len(s) : UnhandledAt(s, i)

\* The call on `command` has returned.
Returned == pc = "done"

---------------------------------------------------------------------------
(* Claims about Shell::unescape, under SpecUnescape *)

\* C1: for every input line with no backslash and every double quote closed,
\* unescape returns Ok with the line split at each space outside quotes and
\* every double quote deleted (a space inside quotes and every other
\* character, tabs included, stay in the token); a result of exactly one
\* empty token is returned as the empty sequence.
C1_SplitsAtSpacesOutsideQuotes ==
    (Returned /\ NoBackslash(command) /\ QuotesClosed(command)) =>
        ret = Ok(IF SplitOutsideQuotes(command) = << <<>> >>
                 THEN <<>>
                 ELSE SplitOutsideQuotes(command))

\* A returned call on a line with a space inside quotes and a delimiter after it.
C1_Witness ==
    /\ Returned
    /\ pass = 1
    /\ input = <<DQ, SP, DQ, SP>>
    /\ ret = Ok(<< <<SP>>, <<>> >>)

C3_UnclosedQuotes ==
    (Returned /\ ~HasUnhandled(command)) =>
        IF InQuotes(command, Len(command) + 1)
        THEN ret = UnclosedQuotes
        ELSE ret.tag = "Ok"

\* A returned call on a line whose only quote is unescaped, after an escaped one.
C3_Witness ==
    /\ Returned
    /\ input = <<BS, DQ, "q", DQ>>
    /\ ret = UnclosedQuotes

\* The current token gets x appended, the token list keeps its length,
\* escape mode is off and the scan goes on.
Emits(x) ==
    /\ vec' = SubSeq(vec, 1, Len(vec) - 1) \o <<vec[Len(vec)] \o <<x>>>>
    /\ escape' = FALSE
    /\ string' = string
    /\ ret' = NoRet
    /\ pc' = "scan"

\* C4: the character c after an unescaped backslash is handled by a fixed
\* table: backslash, n, r, t and double quote append backslash, newline,
\* carriage return, tab and double quote; a space outside quotes appends a
\* space without ending the token; every other c, and a space inside quotes,
\* returns Err(UnhandledEscapeSequence(c)).  The backslash that starts the
\* escape emits nothing, and escape mode lasts one character.
C4_EscapeTable ==
    [][(pc = "scan" /\ idx < Len(command)) =>
        LET c == command[idx + 1] IN
        /\ (~escape /\ c = BS) =>
                (vec' = vec /\ escape' = TRUE /\ string' = string /\ ret' = NoRet)
        /\ (escape /\ c = BS) => Emits(BS)
        /\ (escape /\ c = "n") => Emits(NL)
        /\ (escape /\ c = "r") => Emits(CR)
        /\ (escape /\ c = "t") => Emits(TAB)
        /\ (escape /\ c = DQ) => Emits(DQ)
        /\ (escape /\ c = SP /\ ~string) => Emits(SP)
        /\ (escape /\ (c \notin {BS, "n", "r", "t", DQ, SP} \/ (c = SP /\ string))) =>
                (ret' = UnhandledEscapeSequence(c) /\ pc' = "done" /\ vec' = vec)
    ]_vars

\* A returned call that took an escaped n and an escaped space into one token.
C4_Witness ==
    /\ Returned
    /\ input = <<BS, "n", BS, SP>>
    /\ ret = Ok(<< <<NL, SP>> >>)

\* C5: for every input s with no double quote and no backslash,
\* unescape(join(unescape(s), " ")) returns what unescape(s) returned.
C5_IdempotentOnCleanInput ==
    (Returned /\ pass = 2 /\ NoQuote(input) /\ NoBackslash(input)) => ret = first

\* The second call has returned three tokens, the last two empty, for a clean input.
C5_Witness ==
    /\ Returned
    /\ pass = 2
    /\ input = <<"q", SP, SP>>
    /\ ret = Ok(<< <<"q">>, <<>>, <<>> >>)

\* C6: unescape never panics: the token list is non-empty at every step of
\* the scan, and the call returns Ok(tokens), Err(UnhandledEscapeSequence(c))
\* or Err(UnclosedQuotes).
C6_NeverPanics ==
    /\ pc = "scan" => Len(vec) >= 1
    /\ Returned =>
        \/ ret.tag = "Ok" /\ ret.val \in Seq(Seq(Chars \cup {NL, CR}))
        \/ ret = UnclosedQuotes
        \/ \E i \in 1..Len(command) : ret = UnhandledEscapeSequence(command[i])

\* Mid-scan after two characters, with one token that is still empty.
C6_Witness ==
    /\ pc = "scan"
    /\ idx = 2
    /\ vec = << <<>> >>
    /\ command = <<DQ, DQ, "q">>

---------------------------------------------------------------------------
(* Claims about the handlers, under SpecHandle *)

\* A handler has returned.
Handled == pc = "handled"
Interactive == handler \in {"DefaultHandler", "DefaultAsyncHandler"}
\* The call had a command name: line[0] for the interactive handlers, line[1]
\* (behind the program name) for the CLI handlers.
Named == Handled /\ Len(line) >= (IF Interactive THEN 1 ELSE 2)
Name == IF Interactive THEN line[1] ELSE line[2]
\* The built-in names of the handler that ran.
QuitNames == IF Interactive THEN {S_quit, S_exit}
             ELSE {S_quit, S_exit, S_dquit, S_dexit}
HelpNames == IF Interactive THEN {S_help} ELSE {S_help, S_dhelp}
\* No command body ran and the state is the one the handler was called with.
NothingRan == calls = <<>> /\ state = state_in

\* C7: in every handler, a token list whose command name is "quit" or "exit"
\* returns true, invokes no registered command and leaves the state
\* unchanged, whatever the registry and the arguments.
C7_QuitExitTerminate ==
    (Named /\ Name \in {S_quit, S_exit}) => (result = TRUE /\ NothingRan)

\* The async CLI handler returned true for "exit x" with a user command
\* registered as "exit".
C7_Witness ==
    /\ Handled
    /\ handler = "DefaultAsyncCLIHandler"
    /\ line = <<S_prog, S_exit, S_x>>
    /\ S_exit \in DOMAIN commands
    /\ result = TRUE

\* C8: when the registry holds a user command under a built-in name of the
\* handler (help, quit, exit; for the CLI handlers also --help, --quit,
\* --exit), dispatching that name never invokes the user command and never
\* changes the state: the built-in runs (true for the quit names; the help
\* text, and false, for the help names).
C8_BuiltinsTakePrecedence ==
    (Named /\ Name \in DOMAIN commands /\ Name \in QuitNames \cup HelpNames) =>
        /\ NothingRan
        /\ stderr = <<>>
        /\ Name \in QuitNames => result = TRUE
        /\ Name \in HelpNames =>
            /\ result = FALSE
            /\ \E i \in 1..Len(stdout) : stdout[i] = Text(description)

\* The sync CLI handler printed the help for "--help" with a user command
\* registered as "--help".
C8_Witness ==
    /\ Handled
    /\ handler = "DefaultCommandLineHandler"
    /\ line = <<S_prog, S_dhelp>>
    /\ S_dhelp \in DOMAIN commands
    /\ result = FALSE
    /\ calls = <<>>

\* The registry without its entry "help".
WithoutHelp(cmds) == [n \in DOMAIN cmds \ {S_help} |-> cmds[n]]
\* What the handler that ran may print for help with the registry cmds.
HelpOutputs(cmds) ==
    IF Interactive
    THEN {<<Blank>> \o ShellHelp(description, cmds, o) \o <<Blank>> :
            o \in IterationOrders(DOMAIN cmds)}
    ELSE {AppHelp(line, proj_name, description, cmds, o) \o <<Blank>> :
            o \in IterationOrders(DOMAIN CmdHelp(cmds))}

\* C9 as stated: the output of dispatching help with a registry that holds a
\* user command named "help" is an output of dispatching help with the
\* registry without it.
C9_HelpOutputShadowProof ==
    (Named /\ Name \in HelpNames) => stdout \in HelpOutputs(WithoutHelp(commands))

\* C10: in every handler, a command name that is neither a built-in nor a
\* key of the registry returns false, reports "Command not found" with that
\* name, invokes no command and leaves the state unmodified.
C10_UnknownCommandNotFound ==
    (Named /\ Name \notin QuitNames \cup HelpNames /\ Name \notin DOMAIN commands) =>
        /\ result = FALSE
        /\ stderr = <<NotFound(Name)>>
        /\ NothingRan

\* The async CLI handler reported "nope" as not found, with a registry that
\* is not empty.
C10_Witness ==
    /\ Handled
    /\ handler = "DefaultAsyncCLIHandler"
    /\ line = <<S_quit, S_nope, S_x>>
    /\ commands # <<>>
    /\ stderr = <<NotFound(S_nope)>>

\* The handlers of the synchronous shell and of the synchronous app.
SyncHandlers == {"DefaultHandler", "DefaultCommandLineHandler"}

\* The dispatch reached the lookup of the registry and found the name.
Registered ==
    /\ Named
    /\ Name \notin QuitNames \cup HelpNames
    /\ Name \in DOMAIN commands

\* C11: in every handler, when the body of a registered synchronous command
\* returns Err, the dispatch returns false (a boolean: the error does not
\* leave the dispatch), reports the failure, and the state is what the body
\* left, without rollback.
C11_FailureReportedNoRollback ==
    (Registered /\ commands[Name].command = "Sync"
        /\ calls # <<>> /\ ~calls[1].ok) =>
        /\ result = FALSE
        /\ stderr = <<ExitedUnsuccessfully>>
        /\ state = calls[1].left

\* The body of the synchronous "count" failed after changing the state, in
\* the interactive handler.
C11_Witness ==
    /\ Handled
    /\ handler = "DefaultHandler"
    /\ line = <<S_count>>
    /\ S_count \in DOMAIN commands
    /\ commands[S_count].command = "Sync"
    /\ Len(calls) = 1 /\ ~calls[1].ok
    /\ calls[1].left # state_in
    /\ state = calls[1].left
    /\ stderr = <<ExitedUnsuccessfully>>

\* C12 as stated: in the synchronous handlers, dispatching any name that the
\* registry holds as an asynchronous command reports that async commands
\* cannot run there, invokes no body, leaves the state and returns false.
C12_AsyncEntryRefusedInSync ==
    (Named /\ handler \in SyncHandlers /\ Name \in DOMAIN commands
        /\ commands[Name].command = "Async") =>
        /\ result = FALSE
        /\ stderr = <<IF Interactive THEN AsyncInSyncShell ELSE AsyncInSyncApp>>
        /\ NothingRan

\* C12, amended: in the synchronous handlers, dispatching a name that is not
\* a built-in of the handler and that the registry holds as an asynchronous
\* command reports that async commands cannot run there, invokes no body,
\* leaves the state and returns false.
C12_AsyncRefusedInSync ==
    (Registered /\ handler \in SyncHandlers
        /\ commands[Name].command = "Async") =>
        /\ result = FALSE
        /\ stderr = <<IF Interactive THEN AsyncInSyncShell ELSE AsyncInSyncApp>>
        /\ NothingRan

\* The synchronous shell handler refused the asynchronous "cat".
C12_Witness ==
    /\ Handled
    /\ handler = "DefaultHandler"
    /\ line = <<S_cat, S_x>>
    /\ S_cat \in DOMAIN commands
    /\ commands[S_cat].command = "Async"
    /\ stderr = <<AsyncInSyncShell>>
    /\ calls = <<>>

\* C13: a list without a command (empty for the interactive handlers, of at
\* most the program name for the CLI handlers) is a no-op: the dispatch
\* returns false, prints nothing, invokes nothing and leaves the state.
C13_EmptyIsNoOp ==
    (Handled /\ ~Named) =>
        /\ result = FALSE
        /\ stdout = <<>>
        /\ stderr = <<>>
        /\ NothingRan

\* The CLI handler was given the program name alone, and the registry holds a
\* command of that name.
C13_Witness ==
    /\ Handled
    /\ handler = "DefaultCommandLineHandler"
    /\ line = <<S_quit>>
    /\ S_quit \in DOMAIN commands
    /\ result = FALSE
    /\ stdout = <<>>

\* C14: the dispatch returns true exactly when the command name is, letter
\* for letter, "quit" or "exit", or for the CLI handlers also "--quit" or
\* "--exit".
C14_TrueIffQuitName ==
    Handled => (result = TRUE <=> (Named /\ Name \in QuitNames))

\* The interactive async handler looked "--quit" up in the registry, ran the
\* command of that name, which failed, and returned false.
C14_Witness ==
    /\ Handled
    /\ handler = "DefaultAsyncHandler"
    /\ line = <<S_dquit>>
    /\ Len(calls) = 1 /\ ~calls[1].ok
    /\ result = FALSE

\* The dispatch printed the help of the app.
PrintedUsage == \E i \in 1..Len(stdout) : stdout[i] = Text("USAGE:")

\* C15: in the CLI handlers the element 0 of the list is never the command:
\* the dispatch terminates only on a built-in at element 1, prints the help
\* only for element 1, and invokes only the command that element 1 names,
\* with the list from element 1 on.
C15_Argv0NeverCommand ==
    (Handled /\ ~Interactive) =>
        /\ result = TRUE => (Len(line) >= 2 /\ line[2] \in QuitNames)
        /\ PrintedUsage => (Len(line) >= 2 /\ line[2] \in HelpNames)
        /\ \A i \in 1..Len(calls) :
              /\ Len(line) >= 2
              /\ calls[i].name = line[2]
              /\ calls[i].args = Tail(line)

\* The program is named "quit", the registry holds a command "quit" and the
\* element 1 is unknown: the CLI handler neither terminated nor invoked it.
C15_Witness ==
    /\ Handled
    /\ handler = "DefaultCommandLineHandler"
    /\ line = <<S_quit, S_nope>>
    /\ S_quit \in DOMAIN commands
    /\ result = FALSE
    /\ calls = <<>>
    /\ stderr = <<NotFound(S_nope)>>

---------------------------------------------------------------------------
(* Claims about the interactive loop, under SpecRun and FairSpecRun *)

\* The loop holds the result r of the read of this iteration and has not
\* yet acted on it.
Got(r) == pc = "got" /\ last = r

\* run / run_async returned Ok(()).
TerminatedOk == pc = "terminated" /\ run_ret = Ok(<<>>)

\* C16: in run and run_async, on Interrupted the loop tokenizes nothing,
\* dispatches nothing, leaves the state and goes to the next read; on EOF it
\* returns Ok(()) without a dispatch and without a change of the state.
C16_InterruptedContinuesEOFEnds ==
    [][/\ Got(Interrupted) =>
            /\ pc' = "read"
            /\ UNCHANGED <<handler_vars, tokens, run_ret>>
       /\ Got(EOF) =>
            /\ pc' = "terminated"
            /\ run_ret' = Ok(<<>>)
            /\ UNCHANGED <<handler_vars, tokens>>]_vars

\* After a dispatch, the second read was interrupted and the loop is about
\* to read again.
C16_Witness ==
    /\ pc = "read"
    /\ last = Interrupted
    /\ reads = 2
    /\ handler # "none"
    /\ run_ret = NoRet

\* The handler is about to be given a line whose first token is quit or exit.
QuitLine == pc = "ready" /\ tokens # <<>> /\ tokens[1] \in {S_quit, S_exit}

\* C17: the loop returns Ok(()) in exactly the steps that follow an EOF of
\* the line source or a dispatch that returned true; once it has returned
\* nothing more happens; and an EOF, or a line whose first token is quit or
\* exit, leads to the return of Ok(()).
C17_TerminatesExactlyOnEOFOrQuit ==
    /\ [][/\ (pc' = "terminated" /\ run_ret' = Ok(<<>>)) <=>
                (Got(EOF) \/ (pc = "handled" /\ result = TRUE))
           /\ pc # "terminated"]_vars
    /\ (Got(EOF) \/ QuitLine) ~> TerminatedOk

\* The loop returned Ok(()) after the line `"quit"`, in quotes, was
\* dispatched as the token quit.
C17_Witness ==
    /\ TerminatedOk
    /\ last = S(<<DQ>> \o S_quit \o <<DQ>>)
    /\ line = <<S_quit>>
    /\ result = TRUE

\* The line of this iteration does not tokenize.
GotBadLine ==
    /\ pc = "got"
    /\ last.tag = "S"
    /\ unescape(trim(last.val)).tag = "Err"

\* C18: when the line read does not tokenize, the loop prints the parse
\* error, gives nothing to the handler, leaves the state and goes to the next
\* read.
C18_ParseErrorKeepsRunning ==
    [][GotBadLine =>
        /\ pc' = "read"
        /\ stderr' = <<ParseError(unescape(trim(last.val)))>>
        /\ UNCHANGED <<state, handler, line, result, stdout, calls, tokens,
                       run_ret>>]_vars

\* The line `count \q` was reported as an unhandled escape sequence; the loop
\* is about to read again and no handler has run.
C18_Witness ==
    /\ pc = "read"
    /\ last = S(S_count \o <<SP, BS, "q">>)
    /\ stderr = <<Report("unhandled escape sequence \\", <<"q">>)>>
    /\ handler = "none"
    /\ run_ret = NoRet

\* C19: when read returns Err, run / run_async returns that error at once:
\* nothing is dispatched, nothing more is read, and the error is returned
\* only in this way.
C19_ReadErrorIsFatal ==
    /\ [][Got(IoErr) =>
            /\ pc' = "terminated"
            /\ run_ret' = IoErr
            /\ UNCHANGED <<handler_vars, tokens, reads>>]_vars
    /\ [](run_ret = IoErr => (pc = "terminated" /\ last = IoErr))

\* The second read failed, after a dispatch, and the loop returned the error.
C19_Witness ==
    /\ pc = "terminated"
    /\ run_ret = IoErr
    /\ last = IoErr
    /\ reads = 2
    /\ handler # "none"

---------------------------------------------------------------------------
(* Claims about the app, under SpecApp *)

\* run_vec / run_vec_async has returned, with a cache path.
RanWithCache == pc = "returned" /\ cache

\* C20 as stated: when the dispatch returned true and there is a cache path,
\* run_vec / run_vec_async returns Ok(true) and the cache file is gone,
\* whether or not the file was there before.
C20_QuitDeletesIdempotently ==
    (RanWithCache /\ result = TRUE) => (app_ret = Ok(TRUE) /\ store = {})

\* C21: when the dispatch returned false and there is a cache path, run_vec
\* / run_vec_async returns Ok(false) and the cache file holds the
\* serialization of the state as the call left it, whatever the outcome of
\* the dispatch; with no command at all that is the state before the call.
C21_SavesOnEveryContinue ==
    (RanWithCache /\ result = FALSE) =>
        /\ app_ret = Ok(FALSE)
        /\ store = {to_string(state)}
        /\ (Len(line) <= 1 => state = state_in)

\* The body of "count" changed the state and failed; the changed state was
\* written.
C21_Witness ==
    /\ RanWithCache
    /\ line = <<S_prog, S_count>>
    /\ Len(calls) = 1 /\ ~calls[1].ok
    /\ state # state_in
    /\ stderr = <<ExitedUnsuccessfully>>
    /\ store = {to_string(state)}

\* The step is the construction of an app by a program that starts after a
\* call of run_vec / run_vec_async has returned.
FreshAfterRun == pc = "returned" /\ cache /\ app_ret' # NoRet

\* C22: an app constructed after an invocation whose dispatch returned false
\* starts with the state that invocation ended with, whatever state its
\* caller gives it; constructed after quit or exit it starts with the state
\* its caller gives it.
C22_RoundTrip ==
    [][FreshAfterRun =>
        /\ pc' = "ready"
        /\ state' = IF app_ret = Ok(FALSE) THEN state ELSE given']_vars

\* A fresh app was given another state than the one the command body of the
\* invocation before had left, and has the state the body left.
C22_Witness ==
    /\ pc = "ready"
    /\ app_ret = Constructed
    /\ cache
    /\ runs = 1
    /\ Len(calls) = 1
    /\ state = calls[1].left
    /\ state # given

\* The step is the construction of an app.
Constructs == pc \in {"new", "returned"} /\ app_ret' # NoRet
\* The cache file holds the serialization of a state.
WellFormed == \E v \in States : store = {to_string(v)}

\* C23: the construction of an app succeeds with the state of the caller
\* when there is no cache file, succeeds with the deserialized state when the
\* file is well formed, and fails with an error when it is malformed; after a
\* failed construction nothing runs.
C23_LoadAtConstruction ==
    [][/\ Constructs =>
            /\ (~cache \/ store = {}) =>
                    (pc' = "ready" /\ app_ret' = Constructed /\ state' = given')
            /\ \A v \in States : (cache /\ store = {to_string(v)}) =>
                    (pc' = "ready" /\ app_ret' = Constructed /\ state' = v)
            /\ (cache /\ store # {} /\ ~WellFormed) =>
                    (pc' = "failed" /\ app_ret' = SerdeErr)
       /\ pc # "failed"]_vars

\* The construction failed on the malformed cache file, which is still there;
\* no handler ran.
C23_Witness ==
    /\ pc = "failed"
    /\ app_ret = SerdeErr
    /\ store = {<<"q">>}
    /\ handler = "none"
    /\ runs = 0

---------------------------------------------------------------------------
(* Claims about the awaited commands, under SpecAwait *)

\* C24: in run_async and run_vec_async at most one command is in flight, and
\* while one is in flight the loop reads no line and dispatches nothing and
\* the app neither writes nor removes the cache file: every such step finds
\* no command in flight, and the only step taken with a command in flight is
\* its completion.
C24_OneCommandInFlight ==
    /\ [](inflight <= 1)
    /\ [](inflight = 1 => pc = "awaiting")
    /\ [][inflight = 1 =>
            /\ inflight' = 0
            /\ pc' = "handled"
            /\ reads' = reads
            /\ store' = store
            /\ Len(calls') = 1]_vars

\* The asynchronous "cat" is in flight in the second iteration of run_async,
\* after a first line was dispatched.
C24_Witness ==
    /\ pc = "awaiting"
    /\ inflight = 1
    /\ mode = "run_async"
    /\ reads = 2
    /\ line = <<S_cat>>

---------------------------------------------------------------------------
(* Claims about every use of the library, under SpecSession *)

\* The step is the part of run_vec / run_vec_async after the handler returned.
AfterHandler ==
    /\ mode \in {"run_vec", "run_vec_async"}
    /\ pc = "handled"
    /\ pc' = "returned"

\* C27: no step of a handler, of the loop or of the app changes the registry
\* or the description; the cache file changes only in the step of run_vec /
\* run_vec_async that follows the return of the handler, so never in a
\* dispatch and never in the interactive loop.
C27_RegistryAndStoreFrame ==
    [][/\ commands' = commands
       /\ description' = description
       /\ store' # store => AfterHandler]_vars

\* An app has dispatched the registered "count", whose body changed the
\* state, and then replaced the text of the cache file.
C27_Witness ==
    /\ RanWithCache
    /\ S_count \in DOMAIN commands
    /\ Len(calls) = 1
    /\ state # state_in
    /\ store = {to_string(state)}
    /\ given # state

---------------------------------------------------------------------------
(* Claims about two calls on the same command line, under SpecPair *)

\* Both calls have returned.
Both == pc = "handled" /\ prev # NoRet

\* The two calls are of the synchronous and of the asynchronous handler of
\* one kind.
Counterparts ==
    {prev.handler, handler} \in {{"DefaultHandler", "DefaultAsyncHandler"},
                                 {"DefaultCommandLineHandler",
                                  "DefaultAsyncCLIHandler"}}

OnlySync == \A n \in DOMAIN commands : commands[n].command = "Sync"

\* The two calls invoked the same commands with the same argument lists.
SameCalls ==
    /\ Len(calls) = Len(prev.calls)
    /\ \A i \in 1..Len(calls) :
          /\ calls[i].name = prev.calls[i].name
          /\ calls[i].args = prev.calls[i].args

\* The bodies invoked by the two calls did the same.
SameBodies ==
    \A i \in 1..Len(calls) :
        /\ calls[i].left = prev.calls[i].left
        /\ calls[i].ok = prev.calls[i].ok

\* C25: with a registry of synchronous commands only, the synchronous and
\* the asynchronous handler of one kind, given the same list in the same
\* state, return the same boolean and invoke the same command with the same
\* argument list, and leave the same state when the body does the same.
C25_SyncAsyncEquivalent ==
    (Both /\ Counterparts /\ OnlySync) =>
        /\ result = prev.result
        /\ SameCalls
        /\ SameBodies => (state = prev.state /\ stderr = prev.stderr)

\* DefaultHandler and then DefaultAsyncHandler ran `count x`; the body
\* changed the state in the same way both times.
C25_Witness ==
    /\ Both
    /\ prev.handler = "DefaultHandler"
    /\ handler = "DefaultAsyncHandler"
    /\ line = <<S_count, S_x>>
    /\ Len(calls) = 1
    /\ calls = prev.calls
    /\ state = prev.state
    /\ state # state_in

\* C26 as stated: two dispatches of help by the same handler with the same
\* registry print the same lines in the same order.
C26_HelpOrderDeterministic ==
    (Both /\ handler = prev.handler /\ commands # <<>>
          /\ Named /\ Name \in HelpNames) =>
        stdout = prev.stdout

\* The list without the program name that the first call was given.
L == IF prev.handler \in InteractiveHandlers THEN prev.line ELSE Tail(prev.line)

\* One call is of an interactive handler on L and the other of the CLI
\* handler of the same kind, synchronous or asynchronous, on the program
\* name followed by L.
AcrossPersonalities ==
    /\ Both
    /\ {prev.handler, handler} \in {{"DefaultHandler", "DefaultCommandLineHandler"},
                                    {"DefaultAsyncHandler", "DefaultAsyncCLIHandler"}}

\* C28 as stated: the interactive dispatch of L and the CLI dispatch of the
\* program name followed by L invoke the same command with exactly L as its
\* argument list.
C28_SameCommandSameArguments ==
    AcrossPersonalities =>
        /\ SameCalls
        /\ \A i \in 1..Len(calls) : calls[i].args = L

\* The first token of L is a built-in of the CLI handlers that is none of
\* the interactive handlers.
CLIOnlyBuiltIn == L # <<>> /\ L[1] \in {S_dquit, S_dexit, S_dhelp}

\* C28, amended: unless the first token of L is "--quit", "--exit" or
\* "--help", the interactive dispatch of L and the CLI dispatch of the
\* program name followed by L invoke the same command with exactly L as its
\* argument list: the command name is element 0 and the user arguments follow
\* in their order.
C28_SameArgumentShape ==
    (AcrossPersonalities /\ ~CLIOnlyBuiltIn) =>
        /\ SameCalls
        /\ \A i \in 1..Len(calls) :
              /\ calls[i].args = L
              /\ calls[i].name = L[1]

\* DefaultHandler ran `count x` and DefaultCommandLineHandler ran
\* `sh count x`: both invoked "count" with the list count, x.
C28_Witness ==
    /\ Both
    /\ prev.handler = "DefaultHandler"
    /\ handler = "DefaultCommandLineHandler"
    /\ prev.line = <<S_count, S_x>>
    /\ line = <<S_prog, S_count, S_x>>
    /\ Len(calls) = 1 /\ Len(prev.calls) = 1
    /\ calls[1].args = <<S_count, S_x>>
    /\ prev.calls[1].args = <<S_count, S_x>>

---------------------------------------------------------------------------
(* Claims about the end of the input and about runs of spaces, under
   SpecUnescape *)

\* The input without its last character.
Front == SubSeq(input, 1, Len(input) - 1)

\* The call on an input that ends with a backslash has returned, and the
\* call on the input without that backslash succeeds.
AfterBackslash ==
    /\ Returned
    /\ pass = 1
    /\ input # <<>>
    /\ input[Len(input)] = BS
    /\ unescape(Front).tag = "Ok"

\* C29 as stated: for every input s on which unescape succeeds, unescape of
\* s followed by one backslash succeeds with the same tokens.
C29_TrailingBackslashDropped ==
    AfterBackslash => ret = unescape(Front)

\* C29, amended: for every input s on which unescape succeeds and which does
\* not itself end with a pending escape, unescape of s followed by one
\* backslash succeeds with the same tokens: the pending escape at the end of
\* the input produces no error and no character.
C29_LoneTrailingBackslashDropped ==
    (AfterBackslash /\ ~Escaped(input, Len(input))) => ret = unescape(Front)

\* unescape of `q q\` has returned the tokens of `q q`.
C29_Witness ==
    /\ Returned
    /\ pass = 1
    /\ input = <<"q", SP, "q", BS>>
    /\ escape
    /\ ret = Ok(<< <<"q">>, <<"q">> >>)

\* The spaces of the input that are unescaped and outside quotes.
DelimiterSpaces ==
    {i \in 1..Len(input) :
        input[i] = SP /\ ~Escaped(input, i) /\ ~InQuotes(input, i)}

\* C30: on success the number of tokens is one plus the number of unescaped
\* spaces outside quotes, unless that gives the single empty token, and
\* then it is zero.
C30_SpacesNotCollapsed ==
    (Returned /\ pass = 1 /\ ret.tag = "Ok") =>
        /\ Len(vec) = 1 + Cardinality(DelimiterSpaces)
        /\ Len(ret.val) = IF vec = << <<>> >> THEN 0 ELSE Len(vec)

\* unescape of `q  q` has returned three tokens, the middle one empty.
C30_Witness ==
    /\ Returned
    /\ pass = 1
    /\ input = <<"q", SP, SP, "q">>
    /\ ret = Ok(<< <<"q">>, <<>>, <<"q">> >>)

---------------------------------------------------------------------------
(* Claims about quoted empty arguments and about the order of errors, under
   SpecUnescape *)

\* The input without its last three characters.
Before3 == SubSeq(input, 1, Len(input) - 3)

\* The input is a line with tokens of its own followed by an unescaped space
\* and a pair of double quotes.
EndsWithQuotedEmpty ==
    /\ Len(input) > 3
    /\ SubSeq(input, Len(input) - 2, Len(input)) = <<SP, DQ, DQ>>
    /\ ~Escaped(input, Len(input) - 2)
    /\ unescape(Before3).tag = "Ok"
    /\ unescape(Before3).val # <<>>

\* C31: unescape of a line that is only a pair of double quotes returns no
\* token, and unescape of a line with tokens followed by a space and a pair
\* of double quotes returns those tokens and then an empty token.
C31_QuotedEmptyLostOnlyAlone ==
    (Returned /\ pass = 1) =>
        /\ input = <<DQ, DQ>> => ret = Ok(<<>>)
        /\ EndsWithQuotedEmpty =>
              ret = Ok(Append(unescape(Before3).val, <<>>))

\* unescape of `q ""` has returned the token q and an empty token.
C31_Witness ==
    /\ Returned
    /\ pass = 1
    /\ input = <<"q", SP, DQ, DQ>>
    /\ ret = Ok(<< <<"q">>, <<>> >>)

\* The first position of the input that holds an unhandled escaped
\* character.
FirstUnhandled ==
    CHOOSE i \in 1..Len(input) :
        /\ UnhandledAt(input, i)
        /\ \A j \in 1..(i - 1) : ~UnhandledAt(input, j)

\* A quote of the input is open at its end.
EndsInQuotes == InQuotes(input, Len(input) + 1)

\* C32: unescape returns UnhandledEscapeSequence(c) for the first unhandled
\* escaped character c of the input, whether or not a quote is left open;
\* it returns UnclosedQuotes exactly when there is no unhandled escape and a
\* quote is left open; an error carries no tokens.
C32_ErrorsInScanOrder ==
    (Returned /\ pass = 1) =>
        /\ HasUnhandled(input) =>
              ret = UnhandledEscapeSequence(input[FirstUnhandled])
        /\ ret = UnclosedQuotes <=> (~HasUnhandled(input) /\ EndsInQuotes)
        /\ ret.tag = "Err" => "val" \notin DOMAIN ret

\* unescape of `"\qn`, whose quote is never closed, has returned the
\* unhandled escape at its third character.
C32_Witness ==
    /\ Returned
    /\ pass = 1
    /\ input = <<DQ, BS, "q", "n">>
    /\ EndsInQuotes
    /\ idx = 3
    /\ ret = UnhandledEscapeSequence("q")

---------------------------------------------------------------------------
(* Claims about the loop reading from input_handler::IO, under FairSpecIO *)

\* The loop is about to read again after the end of stdin.
ReadsOn == pc = "read" /\ AtEndOfInput

\* C33: IO::read returns neither EOF nor Interrupted; the end of stdin comes
\* as an empty line, which is dispatched as the empty list and runs nothing;
\* the loop returns only after a read error or a dispatch of quit or exit;
\* and after the end of stdin the loop always comes back to read again.
C33_IONeverEOF ==
    /\ [](last.tag \in {"none", "S", "Err"})
    /\ [][Got(S(<<>>)) => (pc' = "ready" /\ tokens' = <<>>)]_vars
    /\ []((Handled /\ AtEndOfInput) =>
            (line = <<>> /\ result = FALSE /\ NothingRan))
    /\ [](pc = "terminated" =>
            \/ run_ret.tag = "Err"
            \/ /\ result = TRUE
               /\ line # <<>>
               /\ line[1] \in {S_quit, S_exit})
    /\ Got(S(<<>>)) ~> ReadsOn

\* After one line of stdin was dispatched and stdin came to its end, the
\* empty line was dispatched and the loop is about to read again.
C33_Witness ==
    /\ ReadsOn
    /\ reads = 1
    /\ handler \in {"DefaultHandler", "DefaultAsyncHandler"}
    /\ line = <<>>
    /\ result = FALSE
    /\ run_ret = NoRet

---------------------------------------------------------------------------
(* Claims about the trim of the line, under SpecIO *)

\* The line without the line end read_line keeps.
Chomp(l) == IF l # <<>> /\ l[Len(l)] = NL THEN SubSeq(l, 1, Len(l) - 1) ELSE l

OnlyWhitespace(l) == \A i \in 1..Len(l) : l[i] \in Whitespace

\* The line ends with a space escaped by a backslash that is not itself
\* escaped.
EndsWithEscapedSpace(l) ==
    /\ Len(l) >= 2
    /\ l[Len(l)] = SP
    /\ l[Len(l) - 1] = BS
    /\ ~Escaped(l, Len(l) - 1)

\* The line without its last two characters and without the whitespace at
\* its start.
Core(l) == trim_start(SubSeq(l, 1, Len(l) - 2))

\* The loop has read the line l and is about to tokenize it.
GotLine(l) == pc = "got" /\ last.tag = "S" /\ Chomp(last.val) = l

\* C34: a line of only whitespace is tokenized to the empty list and its
\* dispatch runs nothing; the line ` quit ` is tokenized to the token quit
\* and its dispatch ends the loop; a line that ends with an escaped space is
\* tokenized like the line without the backslash and the space, so that its
\* last token does not end with a space.
C34_LineTrimmed ==
    /\ [][/\ (pc = "got" /\ last.tag = "S" /\ OnlyWhitespace(last.val)) =>
               (pc' = "ready" /\ tokens' = <<>>)
          /\ GotLine(<<SP>> \o S_quit \o <<SP>>) =>
               (pc' = "ready" /\ tokens' = <<S_quit>>)
          /\ (pc = "handled" /\ last.tag = "S"
                 /\ Chomp(last.val) = <<SP>> \o S_quit \o <<SP>>) =>
               (pc' = "terminated" /\ run_ret' = Ok(<<>>))
          /\ (pc = "got" /\ last.tag = "S"
                 /\ EndsWithEscapedSpace(Chomp(last.val))
                 /\ unescape(Core(Chomp(last.val))).tag = "Ok") =>
               /\ pc' = "ready"
               /\ tokens' = unescape(Core(Chomp(last.val))).val
               /\ \A i \in {Len(tokens')} \ {0} :
                     tokens'[i] = <<>> \/ tokens'[i][Len(tokens'[i])] # SP]_vars
    /\ []((Handled /\ last.tag = "S" /\ OnlyWhitespace(last.val)) =>
            (line = <<>> /\ result = FALSE /\ NothingRan))

\* The line `count q\ ` was dispatched as count with the argument q.
C34_Witness ==
    /\ Handled
    /\ last = S(S_count \o <<SP, "q", BS, SP, NL>>)
    /\ line = <<S_count, <<"q">>>>
    /\ S_count \in DOMAIN commands
    /\ Len(calls) = 1
    /\ calls[1].args = <<S_count, <<"q">>>>

---------------------------------------------------------------------------
(* Claims about sequences of invocations, under SpecInvocation *)

\* The step is a construction that succeeds: an invocation starts.
Starts == pc \in {"new", "returned"} /\ pc' = "ready"

\* C35: after each invocation the cache file is absent if the dispatch
\* returned true and holds exactly the serialization of the final state
\* otherwise; an invocation starts with the state the cache file holds when
\* there is one and with the state its caller gives it otherwise.
C35_StoreInvariant ==
    /\ [](pc = "returned" =>
            store = IF result THEN {} ELSE {to_string(state)})
    /\ [][Starts =>
            /\ store = {} => state' = given'
            /\ \A v \in States : store = {to_string(v)} => state' = v]_vars

\* The second invocation was given the state 1, started with the state 0
\* that the first had written, and has written the state 1 that its command
\* left.
C35_Witness ==
    /\ pc = "returned"
    /\ runs = 2
    /\ given = 1
    /\ state_in = 0
    /\ result = FALSE
    /\ Len(calls) = 1
    /\ state = 1
    /\ store = {to_string(1)}

===========================================================================
